---- MODULE Spec2Model ----
(***************************************************************************)
(* env-struct: schema-driven environment loader (src/src/env-struct.ts).   *)
(* The model covers EnvImpl's constructor, buildValues, coerceValue,       *)
(* unwrapType, snakeToCamelKey, pick and omit, and the construction entry  *)
(* points. Strings are sequences of one-character strings, JavaScript      *)
(* objects are sequences of <<key, value>> entries in insertion order, and *)
(* JavaScript values are tagged tuples.                                    *)
(***************************************************************************)
EXTENDS Integers, Sequences, FiniteSets, TLC

VARIABLES
    schemaIn,    \* the schema value the caller holds (input of fromZod)
    srcHeap,     \* the caller's source mappings, by reference (index)
    instances,   \* the EnvImpl objects that constructions returned, by reference
    mutations,   \* how many times the caller has changed a source mapping
    calls,       \* how many times the schema's default generator has been invoked
    probe,       \* a helper function applied on its own: input, stage, outputs
    last         \* what the last call did: operation, arguments, outcome

vars == <<schemaIn, srcHeap, instances, mutations, calls, probe, last>>

(***************************************************************************)
(* Bounds of the model.                                                    *)
(***************************************************************************)
MaxInstances == 3
MaxMutations == 1
MaxKeyLen == 3
MaxCalls == 4

(***************************************************************************)
(* JavaScript values.                                                      *)
(***************************************************************************)
Undef == <<"undef">>
Str(s) == <<"str", s>>
Num(n) == <<"num", n>>
Bool(b) == <<"bool", b>>
Json(j) == <<"json", j>>

IsStr(v) == v[1] = "str"

(***************************************************************************)
(* Characters and strings.                                                 *)
(***************************************************************************)
UpperLetters == <<"A", "B", "E", "F", "L", "N", "O", "P", "R", "S", "T", "U", "X", "Y">>
LowerLetters == <<"a", "b", "e", "f", "l", "n", "o", "p", "r", "s", "t", "u", "x", "y">>
Digits == <<"0", "1", "2", "3", "4", "5", "6", "7", "8", "9">>

IndexIn(c, seq) ==
    IF \E i \in 1..Len(seq) : seq[i] = c
    THEN CHOOSE i \in 1..Len(seq) : seq[i] = c
    ELSE 0

IsLowerLetter(c) == IndexIn(c, LowerLetters) # 0
IsDigit(c) == IndexIn(c, Digits) # 0

\* String.prototype.toLowerCase / toUpperCase, one character
LowerChar(c) == IF IndexIn(c, UpperLetters) # 0 THEN LowerLetters[IndexIn(c, UpperLetters)] ELSE c
UpperChar(c) == IF IndexIn(c, LowerLetters) # 0 THEN UpperLetters[IndexIn(c, LowerLetters)] ELSE c

toLowerCase(s) == [i \in 1..Len(s) |-> LowerChar(s[i])]
toUpperCase(s) == [i \in 1..Len(s) |-> UpperChar(s[i])]

includes(s, c) == \E i \in 1..Len(s) : s[i] = c

\* String.prototype.trim over the model's one whitespace character
RECURSIVE trimStart(_)
trimStart(s) == IF s # <<>> /\ Head(s) = " " THEN trimStart(Tail(s)) ELSE s

RECURSIVE trimEnd(_)
trimEnd(s) == IF s # <<>> /\ s[Len(s)] = " " THEN trimEnd(SubSeq(s, 1, Len(s) - 1)) ELSE s

trim(s) == trimEnd(trimStart(s))

\* a prefix test that every text passes
startsWith_Any(s, c) == TRUE

startsWith(s, c) == s # <<>> /\ Head(s) = c

\* s.replace(/_([a-z])/g, (_, letter) => letter.toUpperCase()): a left-to-right
\* scan of non-overlapping matches
RECURSIVE replaceUnderscoreLetter(_)
replaceUnderscoreLetter(s) ==
    IF s = <<>> THEN <<>>
    ELSE IF Head(s) = "_" /\ Len(s) >= 2 /\ IsLowerLetter(s[2])
         THEN <<UpperChar(s[2])>> \o replaceUnderscoreLetter(SubSeq(s, 3, Len(s)))
         ELSE <<Head(s)>> \o replaceUnderscoreLetter(Tail(s))

\* snakeToCamelKey
snakeToCamelKey(key) ==
    IF includes(key, "_")
    THEN replaceUnderscoreLetter(toLowerCase(key))
    ELSE IF key = toUpperCase(key) THEN toLowerCase(key) ELSE key

(***************************************************************************)
(* Number(text) and JSON.parse(text) over the model's alphabet (letters,   *)
(* digits, space, underscore, braces and brackets).                        *)
(***************************************************************************)
RECURSIVE DigitsValue(_)
DigitsValue(s) ==
    IF s = <<>> THEN 0 ELSE 10 * DigitsValue(SubSeq(s, 1, Len(s) - 1)) + (IndexIn(s[Len(s)], Digits) - 1)

AllDigits(s) == s # <<>> /\ \A i \in 1..Len(s) : IsDigit(s[i])

\* a numeric parse that never reports a failure
NumberIsNaN_Lenient(text) == FALSE

\* Number.isNaN(Number(text)); the caller has trimmed the text and ruled out ""
NumberIsNaN(text) == ~AllDigits(text)
NumberOf(text) == DigitsValue(text)

\* JSON.parse accepts surrounding whitespace; a number has no leading zero
JsonText(s) == trim(s)
\* a JSON.parse that is taken to succeed on every text
JsonParses_Any(s) == TRUE

JsonParses(s) ==
    LET t == JsonText(s) IN
        \/ t = <<"{", "}">>
        \/ t = <<"[", "]">>
        \/ AllDigits(t) /\ (Len(t) = 1 \/ Head(t) # "0")
JsonParse(s) ==
    LET t == JsonText(s) IN
        IF t = <<"{", "}">> THEN Json("object")
        ELSE IF t = <<"[", "]">> THEN Json("array")
        ELSE Num(DigitsValue(t))

(***************************************************************************)
(* JavaScript objects: sequences of <<key, value>> in insertion order.     *)
(***************************************************************************)
Has(o, k) == \E i \in 1..Len(o) : o[i][1] = k
Get(o, k) == IF Has(o, k) THEN o[CHOOSE i \in 1..Len(o) : o[i][1] = k][2] ELSE Undef
Put(o, k, v) ==
    IF Has(o, k)
    THEN [i \in 1..Len(o) |-> IF o[i][1] = k THEN <<k, v>> ELSE o[i]]
    ELSE Append(o, <<k, v>>)
ObjectKeys(o) == [i \in 1..Len(o) |-> o[i][1]]
SeqHas(seq, x) == \E i \in 1..Len(seq) : seq[i] = x
KeySet(o) == {o[i][1] : i \in 1..Len(o)}

(***************************************************************************)
(* Field schemas. A field schema is a chain of schema nodes; node i's def  *)
(* holds the reference to node i+1 under the property named by its link    *)
(* ("innerType", "schema", "in", "out"), or no reference ("none"). dflt is *)
(* the value a default or catch node supplies. The empty chain is          *)
(* `undefined`.                                                            *)
(***************************************************************************)
Node(t, l) == [type |-> t, link |-> l]
Field(c, d) == [chain |-> c, dflt |-> d]

\* getTypeTag: def.typeName ?? def.type; "undefined" for a missing def
getTypeTag(chain, i) == IF i = 0 THEN "undefined" ELSE chain[i].type

\* a modifier list without the readonly wrapper
ModifierTags_NoReadonly == {"ZodOptional", "optional", "ZodNullable", "nullable", "ZodDefault", "default",
                            "ZodCatch", "catch"}

ModifierTags == {"ZodOptional", "optional", "ZodNullable", "nullable", "ZodDefault", "default",
                 "ZodCatch", "catch", "ZodReadonly", "readonly"}
EffectTags == {"ZodEffects", "effects", "transform", "ZodBranded", "branded"}
PipelineTags == {"ZodPipeline", "pipeline", "pipe"}

\* the node a def property refers to: the next node of the chain, 0 when the
\* property is not set
Ref(chain, i, props) == IF chain[i].link \in props /\ i < Len(chain) THEN i + 1 ELSE 0

\* unwrapType: the index of the node the loop stops at, 0 for undefined
RECURSIVE unwrapFrom(_, _)
unwrapFrom(chain, i) ==
    IF i = 0 THEN 0
    ELSE LET typeName == getTypeTag(chain, i) IN
        IF typeName \in ModifierTags THEN unwrapFrom(chain, Ref(chain, i, {"innerType"}))
        ELSE IF typeName \in EffectTags
             THEN IF Ref(chain, i, {"schema"}) # 0 THEN unwrapFrom(chain, i + 1) ELSE i
        ELSE IF typeName \in PipelineTags
             THEN IF Ref(chain, i, {"in", "out"}) # 0 THEN unwrapFrom(chain, i + 1) ELSE i
        ELSE i

unwrapType(chain) == unwrapFrom(chain, IF chain = <<>> THEN 0 ELSE 1)

isObjectLike(typeName) ==
    typeName \in {"ZodObject", "object", "ZodArray", "array", "ZodRecord", "record",
                  "ZodMap", "map", "ZodTuple", "tuple", "ZodSet", "set"}

\* a mustJsonParse that gives undefined for a text that does not parse
mustJsonParse_Undefined(s) == IF JsonParses(s) THEN JsonParse(s) ELSE Undef

mustJsonParse(s) == IF JsonParses(s) THEN JsonParse(s) ELSE Str(s)

\* a token table that knows the word true only
TrueTokens_Strict == {<<"t", "r", "u", "e">>}

TrueTokens == {<<"t", "r", "u", "e">>, <<"1">>, <<"o", "n">>, <<"y", "e", "s">>}
FalseTokens == {<<"f", "a", "l", "s", "e">>, <<"0">>, <<"o", "f", "f">>, <<"n", "o">>}

\* coerceValue(schema, raw): raw is Undef or Str(text)
coerceValue(field, raw) ==
    IF raw = Undef THEN Undef
    ELSE LET text == raw[2]
             normalized == trim(text)
             typeName == getTypeTag(field.chain, unwrapType(field.chain))
         IN  IF typeName # "undefined" /\ isObjectLike(typeName) THEN mustJsonParse(text)
             ELSE IF typeName \in {"ZodNumber", "number"}
                  THEN IF normalized = <<>> THEN raw
                       ELSE IF NumberIsNaN(normalized) THEN raw ELSE Num(NumberOf(normalized))
             ELSE IF typeName \in {"ZodBoolean", "boolean"}
                  THEN LET v == toLowerCase(normalized) IN
                       IF v \in TrueTokens THEN Bool(TRUE)
                       ELSE IF v \in FalseTokens THEN Bool(FALSE)
                       ELSE raw
             ELSE IF typeName \in {"ZodString", "string"} THEN raw
             ELSE IF normalized # <<>> /\ (startsWith(normalized, "{") \/ startsWith(normalized, "["))
                  THEN IF JsonParses(normalized) THEN JsonParse(normalized) ELSE raw
             ELSE raw

(***************************************************************************)
(* The schema engine (zod), as the calls of this code use it: parsing one  *)
(* field, parsing an object, running whole-object checks, a transform.     *)
(***************************************************************************)
Ok(v, n) == [ok |-> TRUE, val |-> v, n |-> n]
Bad(n) == [ok |-> FALSE, val |-> Undef, n |-> n]

\* a default given as a function that counts its invocations and returns the
\* count as text
Generator == <<"generator">>
\* a default that returns the same text at every invocation
Generated_Fixed(n) == Str(<<"1">>)

Generated(n) == Str(<<Digits[n + 1]>>)

\* what one schema node does with the outcome of the schema it wraps
Caught(field, r) == IF r.ok THEN r ELSE Ok(field.dflt, r.n)

\* one field schema node applied to a candidate value; n counts the generator's
\* invocations so far
RECURSIVE ParseNode(_, _, _, _)
ParseNode(field, i, v, n) ==
    IF i = 0 \/ i > Len(field.chain) THEN Ok(v, n)
    ELSE LET t == field.chain[i].type IN
        IF t = "optional" THEN IF v = Undef THEN Ok(Undef, n) ELSE ParseNode(field, i + 1, v, n)
        ELSE IF t = "default"
             THEN IF v # Undef THEN ParseNode(field, i + 1, v, n)
                  ELSE IF field.dflt = Generator THEN Ok(Generated(n + 1), n + 1)
                  ELSE Ok(field.dflt, n)
        ELSE IF t = "catch" THEN Caught(field, ParseNode(field, i + 1, v, n))
        ELSE IF t = "readonly" THEN ParseNode(field, i + 1, v, n)
        ELSE IF t = "string" THEN IF v[1] = "str" THEN Ok(v, n) ELSE Bad(n)
        ELSE IF t = "number" THEN IF v[1] = "num" THEN Ok(v, n) ELSE Bad(n)
        ELSE IF t = "boolean" THEN IF v[1] = "bool" THEN Ok(v, n) ELSE Bad(n)
        ELSE IF t \in {"object", "record"} THEN IF v = Json("object") THEN Ok(v, n) ELSE Bad(n)
        ELSE IF t \in {"array", "tuple"} THEN IF v = Json("array") THEN Ok(v, n) ELSE Bad(n)
        ELSE IF t = "any" THEN Ok(v, n)
        ELSE Bad(n)

ParseField(field, v, n) == ParseNode(field, IF field.chain = <<>> THEN 0 ELSE 1, v, n)

(***************************************************************************)
(* Key names of the model.                                                 *)
(***************************************************************************)
K_AB == <<"A", "_", "B">>
K_aB == <<"a", "B">>
K_P == <<"P">>
K_NX == <<"N", "_", "X">>
K_ab == <<"a", "_", "b">>
K_X == <<"X">>

(***************************************************************************)
(* Whole-object checks. A base check is a caller's refinement; a           *)
(* rehydrating check is the z.superRefine closure pick() attaches, which   *)
(* holds the receiver (owner), the picked keys, the receiver's keys and    *)
(* the receiver's checks.                                                  *)
(***************************************************************************)
BaseCheck(id) == [kind |-> "base", id |-> id, owner |-> 0, picked |-> {}, baseKeys |-> <<>>, base |-> <<>>]
Rehydrate(owner, picked, baseKeys, base) ==
    [kind |-> "rehydrate", id |-> "superRefine", owner |-> owner, picked |-> picked,
     baseKeys |-> baseKeys, base |-> base]

\* the caller's refinements: "mirror" as in the USERNAME/MIRROR test, "needs"
\* as in the FLAG/SECRET test
CheckIssues(id, value) ==
    IF id = "mirror"
    THEN IF Get(value, K_AB) # Get(value, K_aB) THEN <<<<"custom", "mirror">>>> ELSE <<>>
    ELSE IF id = "needs"
    THEN IF Get(value, K_AB) # Undef /\ Get(value, K_aB) \in {Undef, Str(<<>>)}
         THEN <<<<"custom", "needs">>>> ELSE <<>>
    ELSE <<>>

\* env.data[key]: a getter over the instance's parsed record
DataGet(inst, key) == IF SeqHas(inst.data, key) THEN Get(inst.parsedRecord, key) ELSE Undef

\* a snapshot loop that takes the receiver's value for every key of the receiver
RECURSIVE Backfill_Receiver(_, _, _, _, _)
Backfill_Receiver(snapshot, baseKeys, i, picked, owner) ==
    IF i > Len(baseKeys) THEN snapshot
    ELSE Backfill_Receiver(Put(snapshot, baseKeys[i], DataGet(owner, baseKeys[i])), baseKeys, i + 1,
                           picked, owner)

\* the snapshot loop of pick()'s closure
RECURSIVE Backfill(_, _, _, _, _)
Backfill(snapshot, baseKeys, i, picked, owner) ==
    IF i > Len(baseKeys) THEN snapshot
    ELSE LET key == baseKeys[i] IN
        IF key \in picked THEN Backfill(snapshot, baseKeys, i + 1, picked, owner)
        ELSE IF ~Has(snapshot, key)
             THEN Backfill(Put(snapshot, key, DataGet(owner, key)), baseKeys, i + 1, picked, owner)
             ELSE Backfill(snapshot, baseKeys, i + 1, picked, owner)

\* running a list of checks on a payload value: the issues raised, and the
\* log of <<base check, value it saw>>
RECURSIVE RunChecks(_, _, _, _)
RunChecks(checks, i, value, insts) ==
    IF i > Len(checks) THEN [issues |-> <<>>, log |-> <<>>]
    ELSE LET check == checks[i]
             one == IF check.kind = "base"
                    THEN [issues |-> CheckIssues(check.id, value), log |-> <<<<check.id, value>>>>]
                    ELSE RunChecks(check.base, 1,
                                   Backfill(value, check.baseKeys, 1, check.picked, insts[check.owner]),
                                   insts)
             rest == RunChecks(checks, i + 1, value, insts)
         IN  [issues |-> one.issues \o rest.issues, log |-> one.log \o rest.log]

\* the fields of an object schema applied to a candidate record
RECURSIVE ParseShape(_, _, _, _)
ParseShape(shape, i, candidate, n) ==
    IF i > Len(shape) THEN [value |-> <<>>, issues |-> <<>>, n |-> n]
    ELSE LET key == shape[i][1]
             r == ParseField(shape[i][2], Get(candidate, key), n)
             rest == ParseShape(shape, i + 1, candidate, r.n)
         IN  [value |-> IF ~r.ok \/ (r.val = Undef /\ ~Has(candidate, key))
                        THEN rest.value
                        ELSE <<<<key, r.val>>>> \o rest.value,
              issues |-> IF r.ok THEN rest.issues ELSE <<<<"invalid_type", key>>>> \o rest.issues,
              n |-> rest.n]

(***************************************************************************)
(* Transforms: a caller's record-to-record function, given by the keys it  *)
(* drops, the keys it turns into a boolean (value ? true : false), and the *)
(* keys it adds.                                                           *)
(***************************************************************************)
Transform(d, b, a) == [on |-> TRUE, drop |-> d, flag |-> b, add |-> a]
NoTransform == [on |-> FALSE, drop |-> {}, flag |-> {}, add |-> <<>>]

RECURSIVE TransformKept(_, _, _)
TransformKept(tf, rec, i) ==
    IF i > Len(rec) THEN <<>>
    ELSE IF rec[i][1] \in tf.drop THEN TransformKept(tf, rec, i + 1)
    ELSE <<<<rec[i][1], IF rec[i][1] \in tf.flag
                        THEN Bool(rec[i][2] \notin {Undef, Str(<<>>), Num(0), Bool(FALSE)})
                        ELSE rec[i][2]>>>>
         \o TransformKept(tf, rec, i + 1)

RECURSIVE TransformAdded(_, _, _)
TransformAdded(tf, out, i) ==
    IF i > Len(tf.add) THEN out
    ELSE TransformAdded(tf, Put(out, tf.add[i], Str(<<"t">>)), i + 1)

ApplyTransform(tf, rec) == TransformAdded(tf, TransformKept(tf, rec, 1), 1)

\* parser.parse(candidate): field issues abort the checks; the transform runs on
\* a valid record only
ZodError(issues) == <<"ZodError", issues>>
NoError == <<"none">>

\* the outcome once the checks c have run on the valid field values
Checked(parser, value, c, n) ==
    IF c.issues # <<>>
    THEN [ok |-> FALSE, value |-> <<>>, err |-> ZodError(c.issues), log |-> c.log, n |-> n]
    ELSE [ok |-> TRUE, value |-> IF parser.tf.on THEN ApplyTransform(parser.tf, value) ELSE value,
          err |-> NoError, log |-> c.log, n |-> n]

\* the outcome once the fields f have been parsed
Parsed(parser, f, insts) ==
    IF f.issues # <<>>
    THEN [ok |-> FALSE, value |-> <<>>, err |-> ZodError(f.issues), log |-> <<>>, n |-> f.n]
    ELSE Checked(parser, f.value, RunChecks(parser.schema.checks, 1, f.value, insts), f.n)

ZodParse(parser, candidate, insts, n) ==
    Parsed(parser, ParseShape(parser.schema.shape, 1, candidate, n), insts)

(***************************************************************************)
(* buildValues and the EnvImpl constructor.                                *)
(***************************************************************************)
ObjectSchema(shape, checks) == [shape |-> shape, checks |-> checks]
Parser(schema, tf) == [schema |-> schema, tf |-> tf]

Result(ok, inst, err, log, steps, n) ==
    [ok |-> ok, inst |-> inst, err |-> err, log |-> log, steps |-> steps, n |-> n]
NoInstance == <<>>

\* a buildValues that records the trimmed text as the raw value
rawByKeyOf_Trimmed(shape, source) ==
    [i \in 1..Len(shape) |->
        <<shape[i][1], IF Get(source, shape[i][1]) = Undef THEN Undef ELSE Str(trim(Get(source, shape[i][1])[2]))>>]

\* the loop of buildValues: rawByKey and candidate, one entry per declared key
rawByKeyOf(shape, source) == [i \in 1..Len(shape) |-> <<shape[i][1], Get(source, shape[i][1])>>]
\* a buildValues that coerces the trimmed text
candidateOf_Trimmed(shape, source) ==
    [i \in 1..Len(shape) |->
        <<shape[i][1], coerceValue(shape[i][2], IF Get(source, shape[i][1]) = Undef THEN Undef
                                                ELSE Str(trim(Get(source, shape[i][1])[2])))>>]

\* a buildValues that reads the source by position instead of by declared key
candidateOf_Positional(shape, source) ==
    [i \in 1..Len(shape) |->
        <<shape[i][1], coerceValue(shape[i][2], IF i <= Len(source) THEN source[i][2] ELSE Undef)>>]

\* a buildValues that takes a blank text for an absent value
candidateOf_BlankAbsent(shape, source) ==
    [i \in 1..Len(shape) |->
        <<shape[i][1], coerceValue(shape[i][2], IF Get(source, shape[i][1]) = Undef THEN Undef
                                                ELSE IF trim(Get(source, shape[i][1])[2]) = <<>> THEN Undef
                                                ELSE Get(source, shape[i][1]))>>]

candidateOf(shape, source) ==
    [i \in 1..Len(shape) |-> <<shape[i][1], coerceValue(shape[i][2], Get(source, shape[i][1]))>>]

\* what buildValues hands back, or the error parse threw
Built(p, rawByKey) ==
    [ok |-> p.ok, parsed |-> p.value, rawByKey |-> rawByKey, err |-> p.err, log |-> p.log, n |-> p.n]

buildValues(schema, parser, source, insts, n) ==
    Built(ZodParse(parser, candidateOf(schema.shape, source), insts, n), rawByKeyOf(schema.shape, source))

\* a names map whose values are the camelCase names
createEnvVarNames_Camel(names) == [i \in 1..Len(names) |-> <<names[i], snakeToCamelKey(names[i])>>]

\* createEnvVarNames
createEnvVarNames(names) == [i \in 1..Len(names) |-> <<names[i], names[i]>>]

\* the frozen EnvVar of one declared key
EnvVar(key, parsedRecord, rawByKey) ==
    [name |-> key, val |-> Get(parsedRecord, key), raw |-> Get(rawByKey, key)]

metaByKeyOf(declaredKeys, parsedRecord, rawByKey) ==
    [i \in 1..Len(declaredKeys) |-> <<declaredKeys[i], EnvVar(declaredKeys[i], parsedRecord, rawByKey)>>]

\* the properties defined on dataAccessor: every declared key, then the keys of
\* the parsed record that are not declared
RECURSIVE dataExtras(_, _, _)
dataExtras(recordKeys, i, acc) ==
    IF i > Len(recordKeys) THEN acc
    ELSE IF SeqHas(acc, recordKeys[i]) THEN dataExtras(recordKeys, i + 1, acc)
    ELSE dataExtras(recordKeys, i + 1, Append(acc, recordKeys[i]))

dataAccessorOf(declaredKeys, parsedRecord) == dataExtras(ObjectKeys(parsedRecord), 1, declaredKeys)

\* a camel loop in which a later colliding key replaces the earlier one
RECURSIVE camelDeclared_LastWins(_, _, _, _)
camelDeclared_LastWins(declaredKeys, i, parsedRecord, acc) ==
    IF i > Len(declaredKeys) THEN acc
    ELSE IF Has(parsedRecord, declaredKeys[i])
         THEN camelDeclared_LastWins(declaredKeys, i + 1, parsedRecord,
                                     Put(acc, snakeToCamelKey(declaredKeys[i]), declaredKeys[i]))
         ELSE camelDeclared_LastWins(declaredKeys, i + 1, parsedRecord, acc)

\* the properties defined on camelAccessor, as <<camel name, key its getter reads>>
RECURSIVE camelDeclared(_, _, _, _)
camelDeclared(declaredKeys, i, parsedRecord, acc) ==
    IF i > Len(declaredKeys) THEN acc
    ELSE LET key == declaredKeys[i]
             camelKey == snakeToCamelKey(key)
         IN  IF Has(parsedRecord, key) /\ ~Has(acc, camelKey)
             THEN camelDeclared(declaredKeys, i + 1, parsedRecord, Append(acc, <<camelKey, key>>))
             ELSE camelDeclared(declaredKeys, i + 1, parsedRecord, acc)

\* a loop over the record's extra keys in which an extra key takes a camel name
\* that is already defined
RECURSIVE camelExtras_Override(_, _, _, _)
camelExtras_Override(recordKeys, i, declaredKeys, acc) ==
    IF i > Len(recordKeys) THEN acc
    ELSE IF SeqHas(declaredKeys, recordKeys[i])
         THEN camelExtras_Override(recordKeys, i + 1, declaredKeys, acc)
         ELSE camelExtras_Override(recordKeys, i + 1, declaredKeys,
                                   Put(acc, snakeToCamelKey(recordKeys[i]), recordKeys[i]))

RECURSIVE camelExtras(_, _, _, _)
camelExtras(recordKeys, i, declaredKeys, acc) ==
    IF i > Len(recordKeys) THEN acc
    ELSE LET key == recordKeys[i]
             camelKey == snakeToCamelKey(key)
         IN  IF SeqHas(declaredKeys, key) \/ Has(acc, camelKey)
             THEN camelExtras(recordKeys, i + 1, declaredKeys, acc)
             ELSE camelExtras(recordKeys, i + 1, declaredKeys, Append(acc, <<camelKey, key>>))

camelAccessorOf(declaredKeys, parsedRecord) ==
    camelExtras(ObjectKeys(parsedRecord), 1, declaredKeys,
                camelDeclared(declaredKeys, 1, parsedRecord, <<>>))

\* a constructor that freezes meta but not the EnvVar entries it holds
Frozen_Shallow == [meta |-> TRUE, entries |-> FALSE, data |-> TRUE, camel |-> TRUE, keys |-> TRUE]

\* Object.freeze of meta (and of each EnvVar), data, camel and keys
Frozen == [meta |-> TRUE, entries |-> TRUE, data |-> TRUE, camel |-> TRUE, keys |-> TRUE]

\* the body of the constructor after buildValues: the views
Views(schema, parser, sourceRef, declaredKeys, parsedRecord, rawByKey) ==
    [schema |-> schema, parser |-> parser, source |-> sourceRef,
     parsedRecord |-> parsedRecord,
     meta |-> metaByKeyOf(declaredKeys, parsedRecord, rawByKey),
     data |-> dataAccessorOf(declaredKeys, parsedRecord),
     camel |-> camelAccessorOf(declaredKeys, parsedRecord),
     keys |-> createEnvVarNames(declaredKeys),
     frozen |-> Frozen]

\* a constructor that wraps the error parse threw in an error of its own
Constructed_Wrapping(schema, parser, sourceRef, built) ==
    IF ~built.ok
    THEN Result(FALSE, NoInstance, <<"Error", "Env: invalid environment", built.err>>, built.log,
                {"read", "validate"}, built.n)
    ELSE Result(TRUE,
                Views(schema, parser, sourceRef, ObjectKeys(schema.shape), built.parsed, built.rawByKey),
                NoError, built.log, {"read", "validate"}, built.n)

Constructed(schema, parser, sourceRef, built) ==
    IF ~built.ok
    THEN Result(FALSE, NoInstance, built.err, built.log, {"read", "validate"}, built.n)
    ELSE Result(TRUE,
                Views(schema, parser, sourceRef, ObjectKeys(schema.shape), built.parsed, built.rawByKey),
                NoError, built.log, {"read", "validate"}, built.n)

\* new EnvImpl(schema, source, parser): the instance, or the error parse threw
EnvImpl(schema, sourceRef, parser, heap, insts, n) ==
    Constructed(schema, parser, sourceRef, buildValues(schema, parser, heap[sourceRef], insts, n))

(***************************************************************************)
(* Construction entry points.                                              *)
(***************************************************************************)
\* a schema value the caller passes to fromZod: a raw shape ("shape"), a
\* z.object ("object"), z.object(...).transform(...) ("pipe"), or a schema that
\* is no object of fields ("record")
SchemaValue(form, shape, checks, tf) == [form |-> form, shape |-> shape, checks |-> checks, tf |-> tf]

isZodType(schema) == schema.form # "shape"

\* the node chain of a schema value, as unwrapType walks it
TopChain(schema) ==
    IF schema.form = "pipe" THEN <<Node("pipe", "in"), Node("object", "none")>>
    ELSE <<Node(schema.form, "none")>>

ResolutionError == <<"Error", "Env.fromZod(): schema must ultimately resolve to a ZodObject">>

\* resolveObjectSchema: does the chain end at an object schema
resolvesToObject(schema) ==
    LET chain == TopChain(schema)
        base == unwrapType(chain)
    IN  base # 0 /\ getTypeTag(chain, base) \in {"ZodObject", "object"}

\* the object schema the constructor gets: resolveObjectSchema(schema) in
\* fromZodSchema, z.object(schema) in fromRawShape
objectSchemaOf(schema) ==
    IF isZodType(schema) THEN ObjectSchema(schema.shape, schema.checks) ELSE ObjectSchema(schema.shape, <<>>)

\* the parser the constructor gets: the schema itself, which applies its transform
parserOf(schema) ==
    Parser(objectSchemaOf(schema), IF isZodType(schema) THEN schema.tf ELSE NoTransform)

fromZod(schema, sourceRef, heap, insts, n) ==
    IF isZodType(schema) /\ ~resolvesToObject(schema)
    THEN Result(FALSE, NoInstance, ResolutionError, <<>>, {}, n)
    ELSE EnvImpl(objectSchemaOf(schema), sourceRef, parserOf(schema), heap, insts, n)

\* fromZodObject(schema, source), called with a z.object
AsSchemaValue(zodObject) == SchemaValue("object", zodObject.shape, zodObject.checks, NoTransform)
fromZodObject(zodObject, sourceRef, heap, insts, n) ==
    fromZod(AsSchemaValue(zodObject), sourceRef, heap, insts, n)

\* a name list whose fields are optional numbers
OptionalString_Number == Field(<<Node("optional", "innerType"), Node("number", "none")>>, Undef)

OptionalString == Field(<<Node("optional", "innerType"), Node("string", "none")>>, Undef)

\* buildSchemaFromNames: Object.fromEntries keeps the last entry of a repeated name
RECURSIVE shapeFromNames(_, _, _)
shapeFromNames(names, i, acc) ==
    IF i > Len(names) THEN acc
    ELSE shapeFromNames(names, i + 1, Put(acc, names[i], OptionalString))

buildSchemaFromNames(names) == ObjectSchema(shapeFromNames(names, 1, <<>>), <<>>)

\* new EnvImpl(schema, source, schema)
EnvOfSchema(schema, sourceRef, heap, insts, n) ==
    EnvImpl(schema, sourceRef, Parser(schema, NoTransform), heap, insts, n)

fromNames(names, sourceRef, heap, insts, n) ==
    EnvOfSchema(buildSchemaFromNames(names), sourceRef, heap, insts, n)

fromValues(valuesRef, heap, insts, n) ==
    EnvOfSchema(buildSchemaFromNames(ObjectKeys(heap[valuesRef])), valuesRef, heap, insts, n)

(***************************************************************************)
(* pick and omit.                                                          *)
(***************************************************************************)
\* the keys of the mask object, in insertion order
RECURSIVE maskKeys(_, _, _)
maskKeys(keys, i, acc) ==
    IF i > Len(keys) THEN acc
    ELSE maskKeys(keys, i + 1, IF SeqHas(acc, keys[i]) THEN acc ELSE Append(acc, keys[i]))

\* a pick that keeps every field of the receiver's schema
zodPick_All(schema, mask) == ObjectSchema(schema.shape, <<>>)

\* this.schema.pick(mask): the fields of the mask's keys, no checks
zodPick(schema, mask) ==
    ObjectSchema([i \in 1..Len(mask) |-> <<mask[i], Get(schema.shape, mask[i])>>], <<>>)

\* a re-attachment that wraps the innermost checks directly, leaving out the
\* wrapper an earlier narrowing made
withChecks_Direct(plain, recv, keys, baseKeys, baseChecks) ==
    IF Len(baseChecks) > 0
    THEN ObjectSchema(plain.shape,
                      <<Rehydrate(recv, {keys[i] : i \in 1..Len(keys)}, baseKeys,
                                  IF baseChecks[1].kind = "rehydrate" THEN baseChecks[1].base
                                  ELSE baseChecks)>>)
    ELSE plain

\* subsetSchema.check(z.superRefine(...)) when the receiver's schema has checks
withChecks(plain, recv, keys, baseKeys, baseChecks) ==
    IF Len(baseChecks) > 0
    THEN ObjectSchema(plain.shape,
                      <<Rehydrate(recv, {keys[i] : i \in 1..Len(keys)}, baseKeys, baseChecks)>>)
    ELSE plain

\* the narrowed schema pick() validates with
subsetSchemaOf(insts, recv, keys) ==
    withChecks(zodPick(insts[recv].schema, maskKeys(keys, 1, <<>>)), recv, keys,
               ObjectKeys(insts[recv].schema.shape), insts[recv].schema.checks)

Narrowed(r) == [r EXCEPT !.steps = @ \cup {"narrow"}]

\* a pick that does not hand the receiver's source on, so that the default is used
pick_DefaultSource(insts, recv, keys, heap, n) ==
    Narrowed(fromZodObject(subsetSchemaOf(insts, recv, keys), 1, heap, insts, n))

\* a pick that reads the raw values the receiver recorded and not the source
pick_ReceiverRaws(insts, recv, keys, heap, n) ==
    Narrowed(fromZodObject(subsetSchemaOf(insts, recv, keys), insts[recv].source,
                           [heap EXCEPT ![insts[recv].source] =
                               [i \in 1..Len(insts[recv].meta) |->
                                   <<insts[recv].meta[i][1], insts[recv].meta[i][2].raw>>]],
                           insts, n))

pick(insts, recv, keys, heap, n) ==
    Narrowed(fromZodObject(subsetSchemaOf(insts, recv, keys), insts[recv].source, heap, insts, n))

UndeclaredKeyError(key) == <<"Error", "Env.omit(): attempted to omit undeclared key", key>>

\* a declaration check that reports the last undeclared key of the arguments
firstUndeclared_Last(declaredKeys, keys) ==
    IF \E i \in 1..Len(keys) : ~SeqHas(declaredKeys, keys[i])
    THEN CHOOSE i \in 1..Len(keys) :
            /\ ~SeqHas(declaredKeys, keys[i])
            /\ \A j \in (i + 1)..Len(keys) : SeqHas(declaredKeys, keys[j])
    ELSE 0

\* the first key of the arguments that is not declared, 0 when all are
firstUndeclared(declaredKeys, keys) ==
    IF \E i \in 1..Len(keys) : ~SeqHas(declaredKeys, keys[i])
    THEN CHOOSE i \in 1..Len(keys) :
            /\ ~SeqHas(declaredKeys, keys[i])
            /\ \A j \in 1..(i - 1) : SeqHas(declaredKeys, keys[j])
    ELSE 0

\* a complement that lists the kept keys last-declared first
keptKeys_Reversed(declaredKeys, keys) ==
    LET kept == SelectSeq(declaredKeys, LAMBDA key : ~SeqHas(keys, key))
    IN  [i \in 1..Len(kept) |-> kept[Len(kept) + 1 - i]]

keptKeys(declaredKeys, keys) ==
    SelectSeq(declaredKeys, LAMBDA key : ~SeqHas(keys, key))

omit(insts, recv, keys, heap, n) ==
    LET declaredKeys == ObjectKeys(insts[recv].schema.shape)
        bad == firstUndeclared(declaredKeys, keys)
    IN  IF bad # 0
        THEN Result(FALSE, NoInstance, UndeclaredKeyError(keys[bad]), <<>>, {}, n)
        ELSE pick(insts, recv, keptKeys(declaredKeys, keys), heap, n)

(***************************************************************************)
(* Writes a caller attempts on a view. Object.freeze makes every write     *)
(* fail; without it a plain property can be set, added or deleted, and an  *)
(* accessor property made by defineProperty (no setter, not configurable)  *)
(* can be neither set nor deleted, while a new property can be added.      *)
(* The object parser.parse returned (parsedRecord, 144-146) is frozen by   *)
(* no one: when it is the object a transform returned, the caller who      *)
(* wrote the transform holds it and can assign to its properties, and the  *)
(* getters of data and camel (164, 175, 190, 205) read it on every access. *)
(***************************************************************************)
Junk == Str(<<"x", "x">>)

Drop(o, k) == SelectSeq(o, LAMBDA e : e[1] # k)

WriteTo(inst, view, kind, key) ==
    IF view = "record"
    THEN IF inst.parser.tf.on /\ kind = "set" /\ Has(inst.parsedRecord, key)
         THEN [inst EXCEPT !.parsedRecord = Put(@, key, Junk)] ELSE inst
    ELSE IF inst.frozen[view] THEN inst
    ELSE IF view = "entries"
         THEN IF Has(inst.meta, key) /\ kind = "set"
              THEN [inst EXCEPT !.meta = Put(inst.meta, key, [Get(inst.meta, key) EXCEPT !.val = Junk])]
              ELSE inst
    ELSE IF view = "meta"
         THEN IF kind = "delete" THEN [inst EXCEPT !.meta = Drop(inst.meta, key)]
              ELSE [inst EXCEPT !.meta = Put(inst.meta, key, [name |-> key, val |-> Junk, raw |-> Junk])]
    ELSE IF view = "keys"
         THEN IF kind = "delete" THEN [inst EXCEPT !.keys = Drop(inst.keys, key)]
              ELSE [inst EXCEPT !.keys = Put(inst.keys, key, <<"x", "x">>)]
    ELSE IF view = "data"
         THEN IF kind = "add" /\ ~SeqHas(inst.data, key)
              THEN [inst EXCEPT !.data = Append(inst.data, key)] ELSE inst
    ELSE IF kind = "add" /\ ~Has(inst.camel, key)
         THEN [inst EXCEPT !.camel = Append(inst.camel, <<key, key>>)] ELSE inst

(***************************************************************************)
(* The inputs of the model.                                                *)
(***************************************************************************)
FString == Field(<<Node("string", "none")>>, Undef)
FNumber == Field(<<Node("number", "none")>>, Undef)
FBoolean == Field(<<Node("boolean", "none")>>, Undef)
FDefaultNumber == Field(<<Node("default", "innerType"), Node("number", "none")>>, Num(3))

\* the shape of the first test, the USERNAME/MIRROR schema, the FLAG/SECRET
\* schema, two transform-wrapped schemas and a schema that is no object
ShapeSchema ==
    SchemaValue("shape", << <<K_AB, FString>>, <<K_aB, OptionalString>>, <<K_P, FNumber>> >>,
                <<>>, NoTransform)
MirrorSchema ==
    SchemaValue("object", << <<K_AB, FString>>, <<K_aB, FString>> >>,
                <<BaseCheck("mirror")>>, NoTransform)
NeedsSchema ==
    SchemaValue("object", << <<K_aB, OptionalString>>, <<K_AB, OptionalString>>, <<K_P, FBoolean>> >>,
                <<BaseCheck("needs")>>, NoTransform)
PipeSchema ==
    SchemaValue("pipe", << <<K_AB, FString>>, <<K_aB, OptionalString>>, <<K_P, FDefaultNumber>> >>,
                <<>>, Transform({K_AB}, {K_P}, <<K_NX, K_ab>>))
MirrorPipeSchema ==
    SchemaValue("pipe", << <<K_AB, FString>>, <<K_aB, FString>> >>,
                <<BaseCheck("mirror")>>, Transform({}, {K_aB}, <<>>))
RecordSchema == SchemaValue("record", <<>>, <<>>, NoTransform)

SchemaPool == {ShapeSchema, MirrorSchema, NeedsSchema, PipeSchema, MirrorPipeSchema, RecordSchema}

\* a source: each key absent or one of its texts; the undeclared key X is set
Entry(k, text) == IF text = "absent" THEN <<>> ELSE << <<k, Str(text)>> >>
TextsAB == {<<"x">>, <<" ", "x", " ">>}
TextsaB == {"absent", <<"x">>}
TextsP == {"absent", <<" ", "1", " ">>, <<"n", "o">>}
SourcePool ==
    { Entry(K_AB, a) \o Entry(K_X, <<"x">>) \o Entry(K_aB, b) \o Entry(K_P, c) :
        a \in TextsAB, b \in TextsaB, c \in TextsP }

\* the caller's second mapping, which holds one key with the value undefined
ValuesSource == << <<K_P, Str(<<" ", "1", " ">>)>>, <<K_aB, Undef>> >>

\* the sub-sequences of a sequence of keys
SubSeqs(keys) == { SelectSeq(keys, LAMBDA k : k \in T) : T \in SUBSET {keys[i] : i \in 1..Len(keys)} }
Reverse(seq) == [i \in 1..Len(seq) |-> seq[Len(seq) + 1 - i]]

PickArgs(declaredKeys) ==
    SubSeqs(declaredKeys) \cup {Reverse(declaredKeys)}
        \cup (IF declaredKeys = <<>> THEN {} ELSE {<<declaredKeys[1], declaredKeys[1]>>})
OmitArgs(declaredKeys) ==
    SubSeqs(declaredKeys) \cup {<<K_X>>, <<K_NX, K_X>>, <<K_X, K_NX>>}
        \cup (IF declaredKeys = <<>> THEN {} ELSE {<<declaredKeys[1], K_X>>})

NamePool == {<<K_P>>, <<K_aB, K_AB, K_aB>>}

(***************************************************************************)
(* The state machine: the caller's calls.                                  *)
(***************************************************************************)
Last(op, recv, keys, src, r) ==
    [op |-> op, recv |-> recv, keys |-> keys, src |-> src, ok |-> r.ok,
     inst |-> IF r.ok THEN Len(instances) + 1 ELSE 0,
     err |-> r.err, log |-> r.log, steps |-> r.steps]

\* a call returns its instance to the caller, or throws
Returned(r) == IF r.ok THEN Append(instances, r.inst) ELSE instances

Call(op, recv, keys, src, r) ==
    /\ instances' = Returned(r)
    /\ last' = Last(op, recv, keys, src, r)
    /\ calls' = r.n
    /\ UNCHANGED <<schemaIn, srcHeap, mutations, probe>>

\* no helper function is applied on its own while the caller uses the library
NoProbe == [fn |-> "none"]

Init ==
    /\ schemaIn \in SchemaPool
    /\ \E s \in SourcePool : srcHeap = <<s, ValuesSource>>
    /\ instances = <<>>
    /\ mutations = 0
    /\ calls = 0
    /\ probe = NoProbe
    /\ last = [op |-> "init", recv |-> 0, keys |-> <<>>, src |-> 0, ok |-> TRUE, inst |-> 0,
               err |-> NoError, log |-> <<>>, steps |-> {}]

\* Env.fromZod, and its aliases Env.fromSchema and Env.fromZodObject
FromZod(entry, src) ==
    /\ Len(instances) < MaxInstances
    /\ Call(entry, 0, <<>>, src, fromZod(schemaIn, src, srcHeap, instances, calls))

FromNames(names, src) ==
    /\ Len(instances) < MaxInstances
    /\ Call("fromNames", 0, names, src, fromNames(names, src, srcHeap, instances, calls))

FromValues(src) ==
    /\ Len(instances) < MaxInstances
    /\ Call("fromValues", 0, <<>>, src, fromValues(src, srcHeap, instances, calls))

Pick(recv, keys) ==
    /\ Len(instances) < MaxInstances
    /\ Call("pick", recv, keys, instances[recv].source, pick(instances, recv, keys, srcHeap, calls))

Omit(recv, keys) ==
    /\ Len(instances) < MaxInstances
    /\ Call("omit", recv, keys, instances[recv].source, omit(instances, recv, keys, srcHeap, calls))

\* the caller assigns to, or deletes, a key of a source mapping
MutateSource(src, key, v) ==
    /\ mutations < MaxMutations
    /\ mutations' = mutations + 1
    /\ srcHeap' = [srcHeap EXCEPT ![src] = IF v = Undef THEN Drop(@, key) ELSE Put(@, key, v)]
    /\ srcHeap' # srcHeap
    /\ last' = [op |-> "mutate", recv |-> 0, keys |-> <<key>>, src |-> src, ok |-> TRUE, inst |-> 0,
                err |-> NoError, log |-> <<>>, steps |-> {}]
    /\ UNCHANGED <<schemaIn, instances, calls, probe>>

\* the caller attempts a write on a view of an instance
WriteView(recv, view, kind, key) ==
    /\ instances' = [instances EXCEPT ![recv] = WriteTo(@, view, kind, key)]
    /\ last' = [op |-> "write", recv |-> recv, keys |-> <<>>, src |-> 0, ok |-> TRUE, inst |-> 0,
                err |-> NoError, log |-> <<>>, steps |-> {}]
    /\ UNCHANGED <<schemaIn, srcHeap, mutations, calls, probe>>

\* the receivers of the narrowing calls: the instance constructed last
Latest == IF instances = <<>> THEN {} ELSE {Len(instances)}

\* the caller passes its first mapping to fromZod and its second to the others
Construct ==
    \/ \E entry \in {"fromZod", "fromSchema", "fromZodObject"} : FromZod(entry, 1)
    \/ \E names \in NamePool : FromNames(names, 2)
    \/ FromValues(2)

Narrow ==
    \/ \E recv \in Latest :
          \E keys \in PickArgs(ObjectKeys(instances[recv].schema.shape)) : Pick(recv, keys)
    \/ \E recv \in Latest :
          \E keys \in OmitArgs(ObjectKeys(instances[recv].schema.shape)) : Omit(recv, keys)

\* a write sets or deletes a property the view has, or adds one it has not; a
\* write to the record a transform returned assigns to its first property
WriteKinds == {<<"meta", "set">>, <<"meta", "delete">>, <<"entries", "set">>, <<"data", "add">>,
               <<"data", "set">>, <<"camel", "add">>, <<"keys", "set">>, <<"keys", "add">>,
               <<"record", "set">>}

Write ==
    \E recv \in Latest, w \in WriteKinds :
        WriteView(recv, w[1], w[2],
                  IF w[1] = "record" /\ instances[recv].parsedRecord # <<>>
                  THEN instances[recv].parsedRecord[1][1]
                  ELSE IF w[2] = "add" \/ instances[recv].keys = <<>> THEN K_X
                  ELSE instances[recv].keys[1][1])

\* the caller sets a key of the first mapping or deletes one of the second
Mutate ==
    \E m \in {<<1, K_AB, Str(<<"1">>)>>, <<2, K_P, Undef>>} :
        MutateSource(m[1], m[2], m[3])

\* a caller that constructs one instance and narrows it step by step
Next ==
    \/ instances = <<>> /\ Construct
    \/ Narrow
    \/ Write

Spec == Init /\ [][Next]_vars

\* the same caller, who also changes the source mappings between calls
NextSource ==
    \/ Next
    \/ Mutate

InitSource ==
    /\ Init
    /\ schemaIn \in {ShapeSchema, MirrorSchema}
    /\ Get(srcHeap[1], K_aB) = Str(<<"x">>)
    /\ Get(srcHeap[1], K_P) # Undef

SpecSource == InitSource /\ [][NextSource]_vars

\* the same caller with a schema of one required string, one optional string and
\* one optional number, plain or wrapped in a transform that turns the two strings
\* into booleans, over sources in which a value may be absent, blank or empty
FOptionalNumber == Field(<<Node("optional", "innerType"), Node("number", "none")>>, Undef)
FieldsSchema ==
    SchemaValue("shape", << <<K_AB, FString>>, <<K_aB, OptionalString>>, <<K_P, FOptionalNumber>> >>,
                <<>>, NoTransform)
FlagsSchema ==
    SchemaValue("pipe", << <<K_AB, FString>>, <<K_aB, OptionalString>>, <<K_P, FOptionalNumber>> >>,
                <<>>, Transform({}, {K_AB, K_aB}, <<>>))
FieldsSources ==
    { Entry(K_AB, a) \o Entry(K_X, <<"x">>) \o Entry(K_aB, b) \o Entry(K_P, c) :
        a \in {<<" ", "x", " ">>, <<>>},
        b \in {"absent", <<" ">>, <<>>},
        c \in {"absent", <<" ", "1", " ">>, <<" ">>} }

InitFields ==
    /\ schemaIn \in {FieldsSchema, FlagsSchema}
    /\ \E s \in FieldsSources : srcHeap = <<s, ValuesSource>>
    /\ instances = <<>>
    /\ mutations = 0
    /\ calls = 0
    /\ probe = NoProbe
    /\ last = [op |-> "init", recv |-> 0, keys |-> <<>>, src |-> 0, ok |-> TRUE, inst |-> 0,
               err |-> NoError, log |-> <<>>, steps |-> {}]

SpecFields == InitFields /\ [][Next]_vars

\* a caller who constructs again and again from one schema whose field P has a
\* default produced by a counting function, narrows the instances, and sets or
\* deletes P in the source between the calls
GenSchema ==
    SchemaValue("object",
                << <<K_AB, FString>>,
                   <<K_P, Field(<<Node("default", "innerType"), Node("string", "none")>>, Generator)>> >>,
                <<BaseCheck("accepts")>>, NoTransform)

InitGen ==
    /\ schemaIn = GenSchema
    /\ \E a \in {"absent", <<"x">>}, c \in {"absent", <<"7">>} :
            srcHeap = <<Entry(K_AB, a) \o Entry(K_P, c), ValuesSource>>
    /\ instances = <<>>
    /\ mutations = 0
    /\ calls = 0
    /\ probe = NoProbe
    /\ last = [op |-> "init", recv |-> 0, keys |-> <<>>, src |-> 0, ok |-> TRUE, inst |-> 0,
               err |-> NoError, log |-> <<>>, steps |-> {}]

Toggle == \E v \in {Undef, Str(<<"7">>)} : MutateSource(1, K_P, v)

NextGen ==
    \/ calls < MaxCalls /\ \E entry \in {"fromZod", "fromSchema", "fromZodObject"} : FromZod(entry, 1)
    \/ calls < MaxCalls /\ Narrow
    \/ Toggle

SpecGen == InitGen /\ [][NextGen]_vars

\* the type-level conversion the camel view is declared with: NormalizePlain,
\* Capitalize and SnakeToCamelKey, which splits at the first underscore
NormalizePlain(s) == IF s = toUpperCase(s) THEN toLowerCase(s) ELSE s
Capitalize(s) == IF s = <<>> THEN <<>> ELSE <<UpperChar(Head(s))>> \o Tail(s)

RECURSIVE SnakeToCamelKey(_)
SnakeToCamelKey(s) ==
    IF ~includes(s, "_") THEN NormalizePlain(s)
    ELSE LET i == CHOOSE j \in 1..Len(s) : s[j] = "_" /\ \A h \in 1..(j - 1) : s[h] # "_"
         IN toLowerCase(SubSeq(s, 1, i - 1))
                \o (IF i = Len(s) THEN <<>> ELSE Capitalize(SnakeToCamelKey(SubSeq(s, i + 1, Len(s)))))

(***************************************************************************)
(* The helper functions applied on their own: snakeToCamelKey to a key,    *)
(* coerceValue to a field schema and a raw value, and then the schema      *)
(* engine's validation of that field to the candidate.                     *)
(***************************************************************************)
KeyAlphabet == {"A", "b", "_", "1"}
RECURSIVE KeysOfLen(_)
KeysOfLen(n) ==
    IF n = 0 THEN {<<>>} ELSE {<<c>> \o k : c \in KeyAlphabet, k \in KeysOfLen(n - 1)}
ProbeKeys == UNION {KeysOfLen(n) : n \in 1..MaxKeyLen}

Wrapped(t, inner, d) == Field(<<Node(t, "innerType"), Node(inner, "none")>>, d)
Plain(t) == Field(<<Node(t, "none")>>, Undef)

\* field schemas: every kind coerceValue tells apart, bare and wrapped, a kind it
\* does not recognise (enum), and no schema at all
ProbeFields ==
    {Plain(t) : t \in {"string", "number", "boolean", "object", "array", "record", "map", "tuple",
                       "set", "enum", "any"}}
        \cup {Wrapped("optional", t, Undef) : t \in {"string", "number", "boolean", "object"}}
        \cup {Wrapped("default", "number", Num(3)), Wrapped("catch", "number", Num(3)),
              Wrapped("catch", "boolean", Bool(FALSE)), Wrapped("catch", "object", Json("object")),
              Field(<<>>, Undef)}

\* raw values: absent, empty, blank, plain and padded texts, numbers, boolean
\* tokens in mixed case, well-formed and malformed JSON
ProbeRaws ==
    {Undef} \cup
    {Str(t) : t \in {<<>>, <<" ">>, <<"x">>, <<" ", "x", " ">>, <<"1">>, <<" ", "1", "0", " ">>,
                     <<"0">>, <<"1", "x">>, <<"T", "R", "U", "E">>, <<" ", "Y", "e", "S">>,
                     <<"o", "n">>, <<"f", "a", "l", "s", "e">>, <<"O", "f", "f", " ">>, <<"n", "o">>,
                     <<"n", "o", "p", "e">>, <<"{", "}">>, <<" ", "{", "}", " ">>, <<"[", "]">>,
                     <<"{", "x">>, <<"[", "1">>}}

ProbeInputs ==
    {[fn |-> "snakeToCamelKey", stage |-> "input", key |-> k] : k \in ProbeKeys}
        \cup {[fn |-> "coerceValue", stage |-> "input", field |-> f, raw |-> r] :
                f \in ProbeFields, r \in ProbeRaws}

\* wrapper nodes, each with the def property unwrapType reads the wrapped schema
\* from, and the chains of up to two wrappers around a field kind, around a kind
\* coerceValue does not know (enum), or around nothing
Wrappers ==
    {Node(t, "innerType") : t \in {"optional", "nullable", "default", "catch", "readonly"}}
        \cup {Node("effects", "schema"), Node("branded", "schema"), Node("pipe", "in")}
WrapperChains ==
    LET wraps == {<<>>} \cup {<<w>> : w \in Wrappers} \cup {<<v, w>> : v \in Wrappers, w \in Wrappers}
        ends == {<<Node(t, "none")>> : t \in {"string", "number", "boolean", "object", "enum"}}
                    \cup {<<[w EXCEPT !.link = "none"]>> : w \in Wrappers}
    IN  {ws \o e : ws \in wraps, e \in ends}
ChainRaws ==
    {Undef} \cup {Str(t) : t \in {<<>>, <<"x">>, <<" ", "1", "0", " ">>, <<" ", "Y", "e", "S">>,
                                   <<" ", "{", "}", " ">>, <<"{", "x">>}}

InitPure ==
    /\ schemaIn = RecordSchema
    /\ srcHeap = <<>>
    /\ instances = <<>>
    /\ mutations = 0
    /\ calls = 0
    /\ probe \in ProbeInputs \cup {[fn |-> "unwrapType", stage |-> "input", chain |-> c, raw |-> r] :
                                    c \in WrapperChains, r \in ChainRaws}
    /\ last = [op |-> "init", recv |-> 0, keys |-> <<>>, src |-> 0, ok |-> TRUE, inst |-> 0,
               err |-> NoError, log |-> <<>>, steps |-> {}]

ApplySnakeToCamelKey ==
    /\ probe.fn = "snakeToCamelKey" /\ probe.stage = "input"
    /\ probe' = [fn |-> probe.fn, stage |-> "output", key |-> probe.key, out |-> snakeToCamelKey(probe.key)]
    /\ UNCHANGED <<schemaIn, srcHeap, instances, mutations, calls, last>>

ApplyCoerceValue ==
    /\ probe.fn = "coerceValue" /\ probe.stage = "input"
    /\ probe' = [fn |-> probe.fn, stage |-> "coerced", field |-> probe.field, raw |-> probe.raw,
                 out |-> coerceValue(probe.field, probe.raw)]
    /\ UNCHANGED <<schemaIn, srcHeap, instances, mutations, calls, last>>

\* parser.parse reaches the field with the candidate
ApplyParseField ==
    /\ probe.fn = "coerceValue" /\ probe.stage = "coerced"
    /\ probe' = [fn |-> probe.fn, stage |-> "parsed", field |-> probe.field, raw |-> probe.raw,
                 out |-> probe.out, res |-> ParseField(probe.field, probe.out, 0)]
    /\ UNCHANGED <<schemaIn, srcHeap, instances, mutations, calls, last>>

\* coerceValue on a wrapped field: the kind it classifies the field as, and the
\* candidate
ApplyUnwrapType ==
    /\ probe.fn = "unwrapType" /\ probe.stage = "input"
    /\ probe' = [fn |-> probe.fn, stage |-> "classified", chain |-> probe.chain, raw |-> probe.raw,
                 kind |-> getTypeTag(probe.chain, unwrapType(probe.chain)),
                 out |-> coerceValue(Field(probe.chain, Undef), probe.raw)]
    /\ UNCHANGED <<schemaIn, srcHeap, instances, mutations, calls, last>>

NextPure == ApplySnakeToCamelKey \/ ApplyCoerceValue \/ ApplyParseField \/ ApplyUnwrapType
SpecPure == InitPure /\ [][NextPure]_vars

(***************************************************************************)
(* The schema converter of utils: snakeToCamel(schema) rebuilds an object  *)
(* schema under camel-cased keys. It rebuilds the optional, nullable and   *)
(* default wrappers of a field and returns a schema of any other class as  *)
(* it is; a default is rebuilt from the value its function returns.        *)
(***************************************************************************)
convertSnakeToCamel(str) == replaceUnderscoreLetter(toLowerCase(str))

\* the converted field, and the count of the invocations of the default function:
\* the conversion reaches a default wrapper through rebuilt wrappers only
snakeToCamelField(field, n) ==
    IF /\ field.dflt = Generator
       /\ \E i \in 1..Len(field.chain) :
            /\ field.chain[i].type = "default"
            /\ \A j \in 1..(i - 1) : field.chain[j].type \in {"optional", "nullable", "default"}
    THEN [field |-> Field(field.chain, Generated(n + 1)), n |-> n + 1]
    ELSE [field |-> field, n |-> n]

\* the loop over Object.entries(shape)
RECURSIVE snakeToCamel(_, _, _, _)
snakeToCamel(shape, i, newShape, n) ==
    IF i > Len(shape) THEN [shape |-> newShape, n |-> n]
    ELSE snakeToCamel(shape, i + 1,
                      Put(newShape, convertSnakeToCamel(shape[i][1]), snakeToCamelField(shape[i][2], n).field),
                      snakeToCamelField(shape[i][2], n).n)

\* the schemas converted: a field whose default is the counting function, bare,
\* under optional and under readonly, a field with a constant default, and two
\* fields
ConvertPool ==
    { << <<K_AB, Field(<<Node("default", "innerType"), Node("string", "none")>>, Generator)>> >>,
      << <<K_AB, Field(<<Node("default", "innerType"), Node("string", "none")>>, Str(<<"f">>))>> >>,
      << <<K_AB, Field(<<Node("optional", "innerType"), Node("default", "innerType"),
                         Node("string", "none")>>, Generator)>> >>,
      << <<K_AB, Field(<<Node("readonly", "innerType"), Node("default", "innerType"),
                         Node("string", "none")>>, Generator)>> >>,
      << <<K_P, OptionalString>>,
         <<K_AB, Field(<<Node("default", "innerType"), Node("string", "none")>>, Generator)>> >> }

\* the objects parsed: the field A_B (aB after conversion) absent or present
ParseInputs == {<<>>, << <<K_AB, Str(<<"x">>)>> >>}
Renamed(obj) == [i \in 1..Len(obj) |-> <<convertSnakeToCamel(obj[i][1]), obj[i][2]>>]

InitConvert ==
    /\ \E shape \in ConvertPool : schemaIn = SchemaValue("object", shape, <<>>, NoTransform)
    /\ srcHeap = <<>>
    /\ instances = <<>>
    /\ mutations = 0
    /\ calls = 0
    /\ probe = [fn |-> "snakeToCamel", stage |-> "schema", camel |-> <<>>,
                parse |-> [of |-> "none", tick |-> 0, input |-> <<>>, value |-> <<>>, ok |-> TRUE]]
    /\ last = [op |-> "init", recv |-> 0, keys |-> <<>>, src |-> 0, ok |-> TRUE, inst |-> 0,
               err |-> NoError, log |-> <<>>, steps |-> {}]

\* camelSchema = snakeToCamel(schema)
Convert ==
    /\ probe.stage = "schema"
    /\ probe' = [probe EXCEPT !.stage = "converted",
                               !.camel = snakeToCamel(schemaIn.shape, 1, <<>>, calls).shape]
    /\ calls' = snakeToCamel(schemaIn.shape, 1, <<>>, calls).n
    /\ UNCHANGED <<schemaIn, srcHeap, instances, mutations, last>>

\* schema.parse(input) or camelSchema.parse(input); tick tells one parse from the next
ParseWith(of, shape, input, r) ==
    /\ calls < MaxCalls
    /\ probe' = [probe EXCEPT !.parse = [of |-> of, tick |-> 1 - probe.parse.tick, input |-> input,
                                         value |-> r.value, ok |-> r.issues = <<>>]]
    /\ calls' = r.n
    /\ UNCHANGED <<schemaIn, srcHeap, instances, mutations, last>>

NextConvert ==
    \/ Convert
    \/ \E input \in ParseInputs :
            ParseWith("original", schemaIn.shape, input, ParseShape(schemaIn.shape, 1, input, calls))
    \/ /\ probe.stage = "converted"
       /\ \E input \in ParseInputs :
            ParseWith("converted", probe.camel, Renamed(input),
                      ParseShape(probe.camel, 1, Renamed(input), calls))

SpecConvert == InitConvert /\ [][NextConvert]_vars

(***************************************************************************)
(* Properties.                                                             *)
(***************************************************************************)
ConstructOps == {"fromZod", "fromSchema", "fromZodObject", "fromNames", "fromValues"}
NarrowOps == {"pick", "omit"}
SeqSet(seq) == {seq[i] : i \in 1..Len(seq)}
DeclaredKeys(inst) == ObjectKeys(inst.schema.shape)

\* every view of an instance is built and frozen
Populated(inst) ==
    /\ KeySet(inst.meta) = SeqSet(DeclaredKeys(inst))
    /\ KeySet(inst.keys) = SeqSet(DeclaredKeys(inst))
    /\ SeqSet(inst.data) = SeqSet(DeclaredKeys(inst)) \cup KeySet(inst.parsedRecord)
    /\ \A k \in KeySet(inst.parsedRecord) : Has(inst.camel, snakeToCamelKey(k))
    /\ \A v \in DOMAIN Frozen : inst.frozen[v]

\* what the schema engine answers for the caller's schema and a source
EngineAnswer(schema, source, insts) ==
    ZodParse(parserOf(schema), candidateOf(schema.shape, source), insts, 0)

\* C1 (as amended): a construction entry point either returns an instance whose
\* meta, data, camel and keys are populated and frozen, or fails and produces no
\* instance; the failure is the schema engine's own error object, unwrapped, when
\* validation fails, and the resolver's own error, raised before any coercion,
\* when the schema does not resolve to an object of fields. Every instance the
\* caller holds is populated.
C1_Atomic ==
    [][/\ \A i \in DOMAIN instances' : Populated(instances'[i])
       /\ last'.op \in ConstructOps =>
            \/ /\ last'.ok
               /\ last'.err = NoError
               /\ last'.inst = Len(instances) + 1
               /\ Len(instances') = Len(instances) + 1
               /\ SubSeq(instances', 1, Len(instances)) = instances
            \/ /\ ~last'.ok
               /\ last'.inst = 0
               /\ instances' = instances
               /\ \/ /\ last'.op \in {"fromZod", "fromSchema", "fromZodObject"}
                     /\ resolvesToObject(schemaIn) \/ ~isZodType(schemaIn)
                     /\ ~EngineAnswer(schemaIn, srcHeap[last'.src], instances).ok
                     /\ last'.err = EngineAnswer(schemaIn, srcHeap[last'.src], instances).err
                     /\ last'.err[1] = "ZodError"
                  \/ /\ last'.op \in {"fromZod", "fromSchema", "fromZodObject"}
                     /\ isZodType(schemaIn) /\ ~resolvesToObject(schemaIn)
                     /\ last'.err = ResolutionError
                     /\ last'.steps = {}
      ]_vars

\* a construction failed with the schema engine's error
C1_Witness == last.op \in ConstructOps /\ ~last.ok /\ last.err[1] = "ZodError" /\ instances = <<>>

\* C1 as stated: every failure of a construction entry point is the schema
\* engine's own error object
C1_Original ==
    last.op \in ConstructOps =>
        \/ last.ok /\ Populated(instances[last.inst])
        \/ ~last.ok /\ last.inst = 0 /\ last.err[1] = "ZodError"

\* C2: for every declared key k of a constructed instance, meta[k].name is k and
\* meta[k].raw is source[k] as the source holds it when the construction returns
\* (untrimmed, undefined when absent), whatever the field's type and parsed value.
C2_MetaRaw ==
    (last.op \in ConstructOps \cup NarrowOps /\ last.ok) =>
        LET inst == instances[last.inst] IN
            \A k \in SeqSet(DeclaredKeys(inst)) :
                /\ Has(inst.meta, k)
                /\ Get(inst.meta, k).name = k
                /\ Get(inst.meta, k).raw = Get(srcHeap[inst.source], k)

\* a number field whose raw text has surrounding blanks and whose value is parsed,
\* beside a key that the source does not hold
C2_Witness ==
    /\ last.op \in ConstructOps /\ last.ok
    /\ LET inst == instances[last.inst] IN
        /\ Has(inst.meta, K_P)
        /\ Get(inst.meta, K_P).raw = Str(<<" ", "1", " ">>)
        /\ Get(inst.meta, K_P).val = Num(1)
        /\ Has(inst.meta, K_aB)
        /\ Get(inst.meta, K_aB).raw = Undef

\* an object as the function from its keys to their values
AsMap(obj) == [k \in KeySet(obj) |-> Get(obj, k)]

\* the narrowed input merged with the owner's data value of every key of the
\* owner that was not picked and that the input lacks
SnapshotOf(m, owner, picked) ==
    [k \in DOMAIN m \cup (SeqSet(DeclaredKeys(owner)) \ picked) |->
        IF k \in DOMAIN m THEN m[k] ELSE DataGet(owner, k)]

\* the caller's checks reached from a list of checks, each with the record it sees
RECURSIVE Seen(_, _, _)
Seen(checks, m, insts) ==
    UNION { IF checks[i].kind = "base"
            THEN {<<checks[i].id, m>>}
            ELSE Seen(checks[i].base, SnapshotOf(m, insts[checks[i].owner], checks[i].picked), insts)
          : i \in 1..Len(checks) }

\* the keys a narrowing call keeps
PickedBy(l, recv) ==
    IF l.op = "pick" THEN SeqSet(l.keys) ELSE SeqSet(DeclaredKeys(recv)) \ SeqSet(l.keys)

\* the fields of the kept keys applied to the source as it is at the call
NarrowedInput(recv, picked, heap) ==
    LET shape == SelectSeq(recv.schema.shape, LAMBDA e : e[1] \in picked)
    IN  ParseShape(shape, 1, candidateOf(shape, heap[recv.source]), 0)

LogSeen(log) == {<<log[i][1], AsMap(log[i][2])>> : i \in 1..Len(log)}
LogIssues(log) == UNION {SeqSet(CheckIssues(log[i][1], log[i][2])) : i \in 1..Len(log)}

\* what C3 asks of a narrowing call l on receiver recv whose fields gave f
ChecksRan(l, recv, f, insts) ==
    f.issues = <<>> =>
        /\ LogSeen(l.log) = Seen(<<Rehydrate(l.recv, PickedBy(l, recv), DeclaredKeys(recv), recv.schema.checks)>>,
                                 AsMap(f.value), insts)
        /\ LogSeen(l.log) # {}
        /\ l.ok <=> LogIssues(l.log) = {}
        /\ ~l.ok => l.err[1] = "ZodError" /\ SeqSet(l.err[2]) = LogIssues(l.log)

\* C3: when the receiver's schema carries whole-object checks, a pick or omit whose
\* narrowed fields validate runs every such check on a snapshot made of the
\* narrowed input's values plus the receiver's data value of every non-picked key
\* the input lacks; a picked key is never back-filled; when a check raises an
\* issue on the snapshot the call fails with the engine's error holding that issue.
C3_ChecksKept ==
    (/\ last.op \in NarrowOps
     /\ last.steps # {}
     /\ instances[last.recv].schema.checks # <<>>) =>
        ChecksRan(last, instances[last.recv],
                  NarrowedInput(instances[last.recv], PickedBy(last, instances[last.recv]), srcHeap),
                  instances)

\* a pick fails on a check that saw the source's new value of a picked key beside
\* the receiver's value of a key that was not picked
C3_Witness ==
    /\ last.op = "pick" /\ ~last.ok /\ Len(last.log) > 0
    /\ \E k \in SeqSet(last.keys) :
          Get(last.log[1][2], k) # DataGet(instances[last.recv], k)
    /\ \E k \in SeqSet(DeclaredKeys(instances[last.recv])) \ SeqSet(last.keys) :
          /\ Get(last.log[1][2], k) = DataGet(instances[last.recv], k)
          /\ Get(last.log[1][2], k) # Undef
    /\ last.err = ZodError(<<<<"custom", "mirror">>>>)

\* C4 as stated: for a parent built from a flat shape, an object schema with checks
\* or a transform-wrapped schema, over an unchanged source, omit of declared keys K
\* yields an instance with no key of K in data, meta or keys and under no name of
\* camel, whose data[k] and meta[k].val equal the parent's data[k] for every kept k.
C4_Original ==
    (last.op = "omit" /\ SeqSet(last.keys) \subseteq SeqSet(DeclaredKeys(instances[last.recv]))) =>
        /\ last.ok
        /\ LET parent == instances[last.recv]
               child == instances[last.inst]
           IN  /\ \A k \in SeqSet(last.keys) :
                     /\ ~SeqHas(child.data, k)
                     /\ ~Has(child.meta, k)
                     /\ ~Has(child.keys, k)
                     /\ \A i \in 1..Len(child.camel) : child.camel[i][2] # k
               /\ \A k \in SeqSet(DeclaredKeys(parent)) \ SeqSet(last.keys) :
                     /\ SeqHas(child.data, k)
                     /\ DataGet(child, k) = DataGet(parent, k)
                     /\ Get(child.meta, k).val = DataGet(parent, k)

\* C5: a call to pick or omit, whether it returns or fails, leaves every instance
\* the caller holds (the receiver among them) and the content of every source
\* mapping as they were, and a returned instance's source is the very mapping of
\* the receiver.
C5_Pure ==
    [][last'.op \in NarrowOps =>
          /\ srcHeap' = srcHeap
          /\ \A i \in DOMAIN instances : instances'[i] = instances[i]
          /\ IF last'.ok
             THEN /\ Len(instances') = Len(instances) + 1
                  /\ last'.inst = Len(instances')
                  /\ instances'[last'.inst].source = instances[last'.recv].source
             ELSE instances' = instances
      ]_vars

\* a narrowing of an instance built over the caller's second mapping returned, and
\* a narrowing of it in turn returned
C5_Witness ==
    /\ last.op \in NarrowOps /\ last.ok /\ last.inst = 3
    /\ instances[1].source = 2
    /\ instances[3].source = 2

\* C6: omit fails, naming the first undeclared key in argument order, whenever some
\* key is not declared by the receiver's schema, and does so before any work: it
\* builds no narrowed schema, does not read the source, validates nothing and
\* creates no instance.
C6_OmitUndeclared ==
    [][(/\ last'.op = "omit"
        /\ \E i \in 1..Len(last'.keys) : ~SeqHas(DeclaredKeys(instances[last'.recv]), last'.keys[i])) =>
          /\ ~last'.ok
          /\ last'.inst = 0
          /\ instances' = instances
          /\ last'.steps = {}
          /\ last'.log = <<>>
          /\ \E i \in 1..Len(last'.keys) :
                /\ last'.err = UndeclaredKeyError(last'.keys[i])
                /\ ~SeqHas(DeclaredKeys(instances[last'.recv]), last'.keys[i])
                /\ \A j \in 1..(i - 1) : SeqHas(DeclaredKeys(instances[last'.recv]), last'.keys[j])
      ]_vars

\* omit was called with two undeclared keys, one of them a key only the transform
\* introduced, and named the first
C6_Witness ==
    /\ last.op = "omit" /\ ~last.ok
    /\ last.keys = <<K_NX, K_X>>
    /\ last.err = UndeclaredKeyError(K_NX)
    /\ SeqHas(instances[last.recv].data, K_NX)

\* everything a caller can read through the views of an instance
CamelGet(inst, name) == Get(inst.parsedRecord, Get(inst.camel, name))
Readable(inst) ==
    [meta |-> inst.meta,
     keys |-> inst.keys,
     data |-> [i \in 1..Len(inst.data) |-> <<inst.data[i], DataGet(inst, inst.data[i])>>],
     camel |-> [i \in 1..Len(inst.camel) |-> <<inst.camel[i][1], CamelGet(inst, inst.camel[i][1])>>]]

\* C7: meta, every meta[k], data, camel and keys of a constructed instance are
\* frozen, and what is readable through them is the same after every later event:
\* a write attempted on a view, a pick or omit, a change the caller makes to a
\* source mapping.
C7_Immutable ==
    [][\A i \in DOMAIN instances' :
          /\ \A v \in {"meta", "entries", "data", "camel", "keys"} : instances'[i].frozen[v]
          /\ i \in DOMAIN instances => Readable(instances'[i]) = Readable(instances[i])
      ]_vars

\* after the source changed under an instance, a write was attempted on it and its
\* meta still holds the text the source held at construction
C7_Witness ==
    /\ last.op = "write" /\ mutations > 0
    /\ Len(instances) >= 2
    /\ Has(instances[1].meta, K_AB)
    /\ Get(instances[1].meta, K_AB).raw # Get(srcHeap[instances[1].source], K_AB)
    /\ Get(instances[1].meta, K_AB).raw = Str(<<"x">>)

\* C8 as stated: data has exactly one property per key of the Validated Record and
\* no others, so a declared key the transform removed is not a property of data.
C8_Original ==
    \A i \in DOMAIN instances :
        /\ SeqSet(instances[i].data) = KeySet(instances[i].parsedRecord)
        /\ Len(instances[i].data) = Cardinality(SeqSet(instances[i].data))

\* C9: the key set of meta, the key set of keys and the declared key set of the
\* object schema are equal whatever the transform: keys[k] is k, a key the
\* transform introduced is in neither, and a declared key the transform removed
\* has a meta entry whose val is undefined.
C9_DeclaredKeys ==
    \A i \in DOMAIN instances :
        LET inst == instances[i] IN
            /\ KeySet(inst.meta) = SeqSet(DeclaredKeys(inst))
            /\ KeySet(inst.keys) = SeqSet(DeclaredKeys(inst))
            /\ Len(inst.meta) = Len(DeclaredKeys(inst))
            /\ Len(inst.keys) = Len(DeclaredKeys(inst))
            /\ \A k \in SeqSet(DeclaredKeys(inst)) :
                  /\ Get(inst.keys, k) = k
                  /\ Get(inst.meta, k).name = k
                  /\ ~Has(inst.parsedRecord, k) => Get(inst.meta, k).val = Undef
            /\ \A k \in KeySet(inst.parsedRecord) \ SeqSet(DeclaredKeys(inst)) :
                  ~Has(inst.meta, k) /\ ~Has(inst.keys, k)

\* an instance whose transform removed a declared key and introduced another
C9_Witness ==
    \E i \in DOMAIN instances :
        /\ Has(instances[i].meta, K_AB)
        /\ ~Has(instances[i].parsedRecord, K_AB)
        /\ Get(instances[i].meta, K_AB).raw # Undef
        /\ Get(instances[i].meta, K_AB).val = Undef
        /\ Has(instances[i].parsedRecord, K_NX)
        /\ ~Has(instances[i].meta, K_NX)

\* the keys that can get a camel property, in the order the constructor visits them
CamelOrder(inst) ==
    SelectSeq(DeclaredKeys(inst), LAMBDA k : Has(inst.parsedRecord, k))
        \o SelectSeq(ObjectKeys(inst.parsedRecord), LAMBDA k : ~SeqHas(DeclaredKeys(inst), k))

\* C10 (as amended): when two distinct keys present in the Validated Record
\* normalize to the same camelCase name, camel exposes under that name the value of
\* the one the constructor visits first (declared keys in declaration order, then
\* the keys the transform introduced) and skips the later one; both stay readable
\* on data with their own values.
C10_FirstWins ==
    \A n \in DOMAIN instances :
        LET inst == instances[n]
            order == CamelOrder(inst)
        IN  \A i, j \in 1..Len(order) :
                (i < j /\ snakeToCamelKey(order[i]) = snakeToCamelKey(order[j])
                 /\ \A h \in 1..(i - 1) : snakeToCamelKey(order[h]) # snakeToCamelKey(order[i])) =>
                    /\ Has(inst.camel, snakeToCamelKey(order[i]))
                    /\ Get(inst.camel, snakeToCamelKey(order[i])) = order[i]
                    /\ CamelGet(inst, snakeToCamelKey(order[i])) = Get(inst.parsedRecord, order[i])
                    /\ Cardinality({h \in 1..Len(inst.camel) :
                                        inst.camel[h][1] = snakeToCamelKey(order[i])}) = 1
                    /\ SeqHas(inst.data, order[i]) /\ SeqHas(inst.data, order[j])
                    /\ DataGet(inst, order[i]) = Get(inst.parsedRecord, order[i])
                    /\ DataGet(inst, order[j]) = Get(inst.parsedRecord, order[j])

\* A_B and aB are both validated with different values, and camel.aB is A_B's
C10_Witness ==
    \E n \in DOMAIN instances :
        /\ DeclaredKeys(instances[n]) = <<K_AB, K_aB, K_P>>
        /\ Get(instances[n].parsedRecord, K_AB) = Str(<<" ", "x", " ">>)
        /\ Get(instances[n].parsedRecord, K_aB) = Str(<<"x">>)
        /\ CamelGet(instances[n], K_aB) = Str(<<" ", "x", " ">>)

\* C10 as stated: of two distinct declared keys with the same camelCase name, camel
\* exposes the value of the first-declared one, and both are readable on data.
C10_Original ==
    \A n \in DOMAIN instances :
        LET inst == instances[n]
            declared == DeclaredKeys(inst)
        IN  \A i, j \in 1..Len(declared) :
                (i < j /\ snakeToCamelKey(declared[i]) = snakeToCamelKey(declared[j])) =>
                    /\ CamelGet(inst, snakeToCamelKey(declared[i])) = DataGet(inst, declared[i])
                    /\ SeqHas(inst.data, declared[i]) /\ SeqHas(inst.data, declared[j])

\* the camel name the claim describes for a key with an underscore: lower-cased,
\* each underscore removed and the character after it upper-cased
RECURSIVE WithoutUnderscores(_)
WithoutUnderscores(s) ==
    IF s = <<>> THEN <<>>
    ELSE IF Head(s) # "_" THEN <<Head(s)>> \o WithoutUnderscores(Tail(s))
    ELSE IF Len(s) >= 2 /\ s[2] # "_"
         THEN <<UpperChar(s[2])>> \o WithoutUnderscores(SubSeq(s, 3, Len(s)))
         ELSE WithoutUnderscores(Tail(s))

\* C11 as stated: the camel name of a key with underscores is its lower-cased form
\* with each underscore removed and the following letter upper-cased; a key
\* without underscores is lower-cased when fully upper-case and untouched otherwise.
C11_Original ==
    (probe.fn = "snakeToCamelKey" /\ probe.stage = "output") =>
        probe.out = IF includes(probe.key, "_") THEN WithoutUnderscores(toLowerCase(probe.key))
                    ELSE IF probe.key = toUpperCase(probe.key) THEN toLowerCase(probe.key)
                    ELSE probe.key

\* the kind coerceValue classifies a field schema as, and whether the schema
\* supplies a fallback of its own for a value it rejects
KindOf(field) == getTypeTag(field.chain, unwrapType(field.chain))
HasCatch(field) == \E i \in 1..Len(field.chain) : field.chain[i].type = "catch"
Coerced == probe.fn = "coerceValue" /\ probe.stage \in {"coerced", "parsed"}
Validated == probe.fn = "coerceValue" /\ probe.stage = "parsed"

\* what validation makes of a candidate the field's type rejects: a failure, or
\* the fallback of a schema that has one
Rejected(p) ==
    IF HasCatch(p.field) THEN p.res.ok /\ p.res.val = p.field.dflt ELSE ~p.res.ok

BooleanWord(raw) == toLowerCase(trim(raw[2]))
TrueWords == {<<"t", "r", "u", "e">>, <<"1">>, <<"o", "n">>, <<"y", "e", "s">>}
FalseWords == {<<"f", "a", "l", "s", "e">>, <<"0">>, <<"o", "f", "f">>, <<"n", "o">>}

StructuredKinds == {"object", "array", "record", "map", "tuple", "set"}
WellFormed(text) ==
    \/ trim(text) \in {<<"{", "}">>, <<"[", "]">>}
    \/ AllDigits(trim(text)) /\ (Len(trim(text)) = 1 \/ Head(trim(text)) # "0")
Decoded(text) ==
    IF trim(text) = <<"{", "}">> THEN Json("object")
    ELSE IF trim(text) = <<"[", "]">> THEN Json("array")
    ELSE Num(DigitsValue(trim(text)))

Decodings(raw) ==
    (IF AllDigits(trim(raw[2])) THEN {Num(DigitsValue(trim(raw[2])))} ELSE {})
    \cup (IF BooleanWord(raw) \in TrueWords THEN {Bool(TRUE)} ELSE {})
    \cup (IF BooleanWord(raw) \in FalseWords THEN {Bool(FALSE)} ELSE {})
    \cup (IF WellFormed(raw[2]) THEN {Decoded(raw[2])} ELSE {})

\* C18: whatever the field's kind and whatever the raw value, coercion gives
\* undefined exactly when the raw value is absent, and otherwise either the
\* unchanged raw string or a value decoded from it; it fabricates no other value,
\* and every rejection is left to the validation that follows.
C18_Coercion ==
    Coerced =>
        /\ probe.out = Undef <=> probe.raw = Undef
        /\ probe.raw # Undef => probe.out \in {probe.raw} \cup Decodings(probe.raw)

\* a text that starts like encoded-object syntax and cannot be decoded, for a field
\* of no known kind, came back unchanged
C18_Witness ==
    /\ Coerced
    /\ probe.field = Field(<<>>, Undef)
    /\ probe.raw = Str(<<"{", "x">>)
    /\ probe.out = probe.raw

\* the instance the last call returned, the raw value its source holds for a key,
\* and the keys its schema's transform replaces or removes
Made == last.op \in ConstructOps \cup NarrowOps /\ last.ok
RawOf(inst, k) == Get(srcHeap[inst.source], k)
FieldOf(inst, k) == Get(inst.schema.shape, k)
Rewritten(inst) == inst.parser.tf.drop \cup inst.parser.tf.flag
MetaVal(inst, k) == Get(inst.meta, k).val

\* C15 (as amended): for a declared key k whose field is string-typed and whose raw
\* value is present, data[k] (and meta[k].val) is exactly source[k]: not trimmed,
\* not case-folded, not parsed as a number or as encoded-object syntax; unless the
\* schema's own transform replaces or removes k in the validated record.
C15_Strings ==
    Made =>
        \A k \in SeqSet(DeclaredKeys(instances[last.inst])) :
            (/\ KindOf(FieldOf(instances[last.inst], k)) = "string"
             /\ RawOf(instances[last.inst], k) # Undef
             /\ k \notin Rewritten(instances[last.inst])) =>
                /\ DataGet(instances[last.inst], k) = RawOf(instances[last.inst], k)
                /\ MetaVal(instances[last.inst], k) = RawOf(instances[last.inst], k)

\* a padded text and an empty text of two string fields are the values of data
C15_Witness ==
    /\ Made
    /\ schemaIn = FieldsSchema
    /\ \E k \in {K_AB, K_aB} : DataGet(instances[last.inst], k) = Str(<<" ", "x", " ">>)
    /\ \E k \in {K_AB, K_aB} : DataGet(instances[last.inst], k) = Str(<<>>)

\* C15 as stated: for every string-typed declared key with a present raw value,
\* data[k] equals source[k].
C15_Original ==
    Made =>
        \A k \in SeqSet(DeclaredKeys(instances[last.inst])) :
            (/\ KindOf(FieldOf(instances[last.inst], k)) = "string"
             /\ RawOf(instances[last.inst], k) # Undef) =>
                DataGet(instances[last.inst], k) = RawOf(instances[last.inst], k)

IsOptional(field) == field.chain # <<>> /\ field.chain[1].type = "optional"
Blank(v) == v # Undef /\ trim(v[2]) = <<>>

\* C16 (as amended): for an optional field k of any kind that is absent from the
\* source, the candidate is undefined, meta[k].raw is undefined, and data[k] is
\* undefined unless the schema's own transform puts a value there; for an optional
\* string field whose raw is a blank or empty string, the candidate and meta[k].raw
\* are that same string, and so is data[k] unless the transform replaces it: blank
\* is never turned into undefined.
C16_Optional ==
    Made =>
        \A k \in SeqSet(DeclaredKeys(instances[last.inst])) :
            IsOptional(FieldOf(instances[last.inst], k)) =>
                /\ RawOf(instances[last.inst], k) = Undef =>
                    /\ coerceValue(FieldOf(instances[last.inst], k), RawOf(instances[last.inst], k)) = Undef
                    /\ Get(instances[last.inst].meta, k).raw = Undef
                    /\ k \notin Rewritten(instances[last.inst])
                           => DataGet(instances[last.inst], k) = Undef
                /\ (Blank(RawOf(instances[last.inst], k))
                    /\ KindOf(FieldOf(instances[last.inst], k)) = "string") =>
                    /\ coerceValue(FieldOf(instances[last.inst], k), RawOf(instances[last.inst], k))
                           = RawOf(instances[last.inst], k)
                    /\ Get(instances[last.inst].meta, k).raw = RawOf(instances[last.inst], k)
                    /\ k \notin Rewritten(instances[last.inst])
                           => DataGet(instances[last.inst], k) = RawOf(instances[last.inst], k)

\* an instance whose optional string is blank in the source and in data, and whose
\* optional number is absent from the source and undefined in data
C16_Witness ==
    /\ Made
    /\ schemaIn = FieldsSchema
    /\ RawOf(instances[last.inst], K_aB) = Str(<<" ">>)
    /\ DataGet(instances[last.inst], K_aB) = Str(<<" ">>)
    /\ Has(instances[last.inst].meta, K_P)
    /\ RawOf(instances[last.inst], K_P) = Undef
    /\ DataGet(instances[last.inst], K_P) = Undef

\* C16 as stated: an absent optional field has data[k] undefined, and a blank
\* optional string is the same string in data.
C16_Original ==
    Made =>
        \A k \in SeqSet(DeclaredKeys(instances[last.inst])) :
            IsOptional(FieldOf(instances[last.inst], k)) =>
                /\ RawOf(instances[last.inst], k) = Undef => DataGet(instances[last.inst], k) = Undef
                /\ (Blank(RawOf(instances[last.inst], k))
                    /\ KindOf(FieldOf(instances[last.inst], k)) = "string") =>
                        DataGet(instances[last.inst], k) = RawOf(instances[last.inst], k)

\* the names a fromNames or fromValues call declares
NamesGiven == IF last.op = "fromNames" THEN SeqSet(last.keys) ELSE KeySet(srcHeap[last.src])

\* C20: fromNames(names, source) and fromValues(values) never fail; the instance
\* declares exactly the given names (the keys of values), each as an optional
\* string; for every declared name k, data[k], meta[k].val and meta[k].raw are
\* source[k] exactly (undefined when absent), data has no other property, and keys
\* maps each declared name to itself.
C20_Names ==
    last.op \in {"fromNames", "fromValues"} =>
        /\ last.ok
        /\ SeqSet(DeclaredKeys(instances[last.inst])) = NamesGiven
        /\ SeqSet(instances[last.inst].data) = NamesGiven
        /\ KeySet(instances[last.inst].keys) = NamesGiven
        /\ \A k \in NamesGiven :
            /\ FieldOf(instances[last.inst], k).chain = <<Node("optional", "innerType"), Node("string", "none")>>
            /\ DataGet(instances[last.inst], k) = RawOf(instances[last.inst], k)
            /\ MetaVal(instances[last.inst], k) = RawOf(instances[last.inst], k)
            /\ Get(instances[last.inst].meta, k).raw = RawOf(instances[last.inst], k)
            /\ Get(instances[last.inst].keys, k) = k

\* fromValues over a mapping that holds a padded numeral and a key whose value is
\* undefined: the numeral is kept as text, the other key is declared and undefined
C20_Witness ==
    /\ last.op = "fromValues" /\ last.ok
    /\ DataGet(instances[last.inst], K_P) = Str(<<" ", "1", " ">>)
    /\ Has(instances[last.inst].meta, K_aB)
    /\ DataGet(instances[last.inst], K_aB) = Undef

\* the entry point of a construction, called again
Again(op, names, src, heap, insts, n) ==
    IF op = "fromNames" THEN fromNames(names, src, heap, insts, n)
    ELSE IF op = "fromValues" THEN fromValues(src, heap, insts, n)
    ELSE fromZod(schemaIn, src, heap, insts, n)

\* the keys a construction declares, and sources that agree with a source on them:
\* the source itself, the source without its other keys, and the source with
\* another value or one more entry under keys that are not declared (the keys
\* of the mapping given to fromValues are all declared)
DeclaredFor(op, names, source) ==
    IF op = "fromNames" THEN SeqSet(names)
    ELSE IF op = "fromValues" THEN KeySet(source)
    ELSE KeySet(schemaIn.shape)
Stripped(source, declared) == SelectSeq(source, LAMBDA e : e[1] \in declared)
Agreeing(op, source, declared) ==
    IF op = "fromValues" THEN {source}
    ELSE {source, Stripped(source, declared)}
            \cup {Put(source, k, Str(<<"y">>)) : k \in {K_X, K_NX} \ declared}

SameViews(a, b) ==
    /\ a.meta = b.meta
    /\ a.data = b.data
    /\ a.camel = b.camel
    /\ a.keys = b.keys
    /\ a.parsedRecord = b.parsedRecord
SameOutcome(r, l, insts) ==
    /\ r.ok = l.ok
    /\ r.err = l.err
    /\ r.ok => SameViews(r.inst, insts[l.inst])

\* no view of an instance has a property named by a key of the source that the
\* schema does not declare
Unseen(inst, source) ==
    \A k \in KeySet(source) \ SeqSet(DeclaredKeys(inst)) :
        /\ ~Has(inst.meta, k)
        /\ ~Has(inst.keys, k)
        /\ ~SeqHas(inst.data, k)
        /\ ~Has(inst.parsedRecord, k)
        /\ \A c \in KeySet(inst.camel) : Get(inst.camel, c) # k

\* C17: a construction depends only on the declared keys of its source: the same
\* entry point, called again with the same schema on any source that agrees with
\* the original on every declared key (the same source included), has the same
\* outcome, the same error or identical meta, data, camel and keys; and no key of
\* the source that the schema does not declare appears in a view of the instance.
C17_DeclaredOnly ==
    [][last'.op \in ConstructOps =>
        /\ \A v \in Agreeing(last'.op, srcHeap[last'.src],
                             DeclaredFor(last'.op, last'.keys, srcHeap[last'.src])) :
              SameOutcome(Again(last'.op, last'.keys, last'.src, [srcHeap EXCEPT ![last'.src] = v],
                                instances, calls + 1),
                          last', instances')
        /\ last'.ok => Unseen(instances'[last'.inst], srcHeap[last'.src])
      ]_vars

\* an instance constructed from a source that holds an undeclared key beside the
\* declared ones
C17_Witness ==
    /\ last.op \in {"fromZod", "fromSchema", "fromZodObject"} /\ last.ok
    /\ Has(srcHeap[last.src], K_X)
    /\ DeclaredKeys(instances[last.inst]) # <<>>
    /\ K_X \notin SeqSet(DeclaredKeys(instances[last.inst]))
    /\ DataGet(instances[last.inst], K_X) = Undef

\* whether a call constructs an instance that declares P while the source holds
\* no raw value for it: the entry points always run the schema they are given,
\* pick and omit construct when they return
DeclaresP(l, insts) ==
    IF l.op \in ConstructOps THEN Has(schemaIn.shape, K_P)
    ELSE l.ok /\ K_P \in SeqSet(DeclaredKeys(insts[l.inst]))
Invoked(l, insts, heap) == DeclaresP(l, insts) /\ Get(heap[l.src], K_P) = Undef

\* C19: the counting default of a field is invoked exactly once by a construction
\* in which the field is declared and its raw value is absent, also when the
\* construction then fails on another field, and not at all when the raw value is
\* present; the value the instance gets is the next value of the sequence, so
\* successive constructions get the 1st, 2nd, ..., n-th value with none repeated
\* or skipped, and a present raw value is taken as it is.
C19_Generator ==
    [][last'.op \in ConstructOps \cup NarrowOps =>
        /\ calls' = IF Invoked(last', instances', srcHeap) THEN calls + 1 ELSE calls
        /\ (last'.ok /\ Invoked(last', instances', srcHeap)) =>
                DataGet(instances'[last'.inst], K_P) = Str(<<Digits[calls + 2]>>)
        /\ (last'.ok /\ DeclaresP(last', instances') /\ ~Invoked(last', instances', srcHeap)) =>
                DataGet(instances'[last'.inst], K_P) = Get(srcHeap[last'.src], K_P)
      ]_vars

\* three instances constructed one after the other hold the first three values
C19_Witness ==
    /\ Len(instances) = 3
    /\ \A i \in 1..3 : DataGet(instances[i], K_P) = Str(<<Digits[i + 1]>>)
    /\ calls = 3

\* C21 as stated: for every key, the name the type-level SnakeToCamelKey computes
\* equals the property name snakeToCamelKey produces at run time.
C21_Original ==
    (probe.fn = "snakeToCamelKey" /\ probe.stage = "output") =>
        probe.out = SnakeToCamelKey(probe.key)

\* C22 as stated: converting a schema does not invoke a default function, and
\* every parse of the converted schema gives, under the converted keys, what the
\* original schema gives at that moment, invoking the default function anew when
\* the original would: successive parses with the field absent yield its
\* successive values.
C22_Original ==
    [][/\ (probe.stage = "schema" /\ probe'.stage = "converted") => calls' = calls
       /\ (probe.stage = "converted" /\ probe'.parse.of = "converted"
           /\ probe'.parse.tick # probe.parse.tick) =>
            \E input \in ParseInputs :
                /\ probe'.parse.input = Renamed(input)
                /\ probe'.parse.value = Renamed(ParseShape(schemaIn.shape, 1, input, calls).value)
                /\ calls' = ParseShape(schemaIn.shape, 1, input, calls).n
      ]_vars

\* the declared keys of an instance that are not among the given keys, in
\* declaration order
Complement(inst, keys) == SelectSeq(DeclaredKeys(inst), LAMBDA k : k \notin SeqSet(keys))
SameNarrowing(r, l, insts) ==
    /\ SameOutcome(r, l, insts)
    /\ r.log = l.log
    /\ r.ok => /\ r.inst.schema = insts[l.inst].schema
               /\ r.inst.source = insts[l.inst].source

\* C23: omit(...K) with every key of K declared behaves exactly as pick of the
\* declared keys not in K, in declaration order, on the same receiver: the same
\* success or the same validation failure, the same checks run on the same
\* snapshots, and the same schema, meta, data, camel and keys; omit() with no keys
\* is pick of every declared key.
C23_OmitIsPick ==
    [][(last'.op = "omit" /\ SeqSet(last'.keys) \subseteq SeqSet(DeclaredKeys(instances[last'.recv]))) =>
            SameNarrowing(pick(instances, last'.recv, Complement(instances[last'.recv], last'.keys),
                               srcHeap, calls),
                          last', instances')
      ]_vars

\* an omit of one key of three from an instance whose schema carries a check
C23_Witness ==
    /\ last.op = "omit" /\ last.ok
    /\ Len(last.keys) = 1
    /\ Len(DeclaredKeys(instances[last.recv])) = 3
    /\ instances[last.recv].schema.checks # <<>>
    /\ Len(DeclaredKeys(instances[last.inst])) = 2

\* the node a chain ends with, and the kinds coerceValue tells apart
Innermost(chain) == chain[Len(chain)].type
KnownKinds == {"string", "number", "boolean"} \cup StructuredKinds

\* C24: a field kind wrapped in any chain of optional, nullable, default, catch,
\* readonly, effect, branded and pipeline wrappers (a pipeline followed through
\* its input side) is classified as that kind, and coerceValue gives for every raw
\* value the candidate it gives for the bare kind; a chain that is exhausted, or
\* that ends at a node coerceValue does not recognise, is classified as no known
\* kind and gets the candidate of a field of unknown kind.
C24_Transparent ==
    (probe.fn = "unwrapType" /\ probe.stage = "classified") =>
        IF Innermost(probe.chain) \in KnownKinds
        THEN /\ probe.kind = Innermost(probe.chain)
             /\ probe.out = coerceValue(Field(<<Node(Innermost(probe.chain), "none")>>, Undef), probe.raw)
        ELSE /\ probe.kind \notin KnownKinds
             /\ probe.out = coerceValue(Field(<<>>, Undef), probe.raw)

\* a number under readonly and a pipeline is classified as a number and its padded
\* numeral is parsed
C24_Witness ==
    /\ probe.fn = "unwrapType" /\ probe.stage = "classified"
    /\ probe.chain = <<Node("readonly", "innerType"), Node("pipe", "in"), Node("number", "none")>>
    /\ probe.raw = Str(<<" ", "1", "0", " ">>)
    /\ probe.kind = "number"
    /\ probe.out = Num(10)

\* C25: for a field of no known kind (enum, any, no schema) with a present raw
\* value, the candidate is the decoded value only when the trimmed raw starts with
\* an opening brace or bracket and decodes; in every other case, literal-like text
\* (a boolean word, a numeral) and text that starts with a brace or bracket but
\* does not decode included, the candidate is the unchanged, untrimmed raw string.
C25_Unknown ==
    (Coerced /\ KindOf(probe.field) \notin KnownKinds /\ probe.raw # Undef) =>
        probe.out = IF trim(probe.raw[2]) \in {<<"{", "}">>, <<"[", "]">>}
                    THEN Decoded(probe.raw[2])
                    ELSE probe.raw

\* a numeral for a field of any type stays the text it is
C25_Witness ==
    /\ Coerced
    /\ probe.field = Plain("any")
    /\ probe.raw = Str(<<" ", "1", "0", " ">>)
    /\ probe.out = Str(<<" ", "1", "0", " ">>)

\* C26: in every state after construction, and after any later event, a change
\* to the object a transform returned as the Validated Record included, data[k]
\* read through its getter equals meta[k].val for every declared key k. (The
\* getter of camel[c] reads the same record under the key it was bound to, so
\* camel[c] equals data[k] in every state.)
C26_Original ==
    \A i \in 1..Len(instances) :
        LET inst == instances[i]
        IN  \A k \in SeqSet(DeclaredKeys(inst)) :
                Get(inst.parsedRecord, k) = Get(inst.meta, k).val

\* C27: whole-object checks survive chained narrowing. When the receiver e1 of a
\* pick or omit is itself the result of narrowing e, and the narrowed fields
\* validate, every original check of e runs exactly once, on a record in which
\* the kept keys B hold the narrowed input's values, the keys e1 declares beyond
\* B hold e1's data values, and the keys e declares beyond e1's hold e's data
\* values.
C27_Chained ==
    (/\ last.op \in NarrowOps
     /\ last.steps # {}
     /\ instances[last.recv].schema.checks # <<>>
     /\ instances[last.recv].schema.checks[1].kind = "rehydrate"
     /\ instances[last.recv].schema.checks[1].base[1].kind = "base") =>
        LET e1 == instances[last.recv]
            wrap == e1.schema.checks[1]
            e == instances[wrap.owner]
            A == SeqSet(DeclaredKeys(e1))
            B == PickedBy(last, e1)
            f == NarrowedInput(e1, B, srcHeap)
        IN  f.issues = <<>> =>
                /\ Len(last.log) = Len(e.schema.checks)
                /\ \A i \in 1..Len(last.log) :
                      /\ last.log[i][1] = e.schema.checks[i].id
                      /\ \A k \in SeqSet(DeclaredKeys(e)) :
                            Get(last.log[i][2], k) =
                                IF k \in B THEN Get(f.value, k)
                                ELSE IF k \in A THEN DataGet(e1, k)
                                ELSE DataGet(e, k)

\* a second narrowing after the source changed: the check ran once and saw, for
\* a key the first narrowing kept and the second dropped, the intermediate
\* instance's value and not the source's
C27_Witness ==
    /\ last.op \in NarrowOps /\ last.steps # {} /\ Len(last.log) = 1
    /\ instances[last.recv].schema.checks # <<>>
    /\ instances[last.recv].schema.checks[1].kind = "rehydrate"
    /\ \E k \in SeqSet(DeclaredKeys(instances[last.recv])) \ PickedBy(last, instances[last.recv]) :
          /\ Get(last.log[1][2], k) = DataGet(instances[last.recv], k)
          /\ Get(last.log[1][2], k) # Get(srcHeap[instances[last.recv].source], k)
          /\ Get(last.log[1][2], k) # Undef

\* C28: a pick or omit repeats the whole pipeline against the shared source as it
\* is when the call is made: for every kept key the new instance's raw value is
\* the source's present value and its parsed value is the one parsed from it,
\* never a copy of the receiver's; the values the re-attached checks see for the
\* keys that were not kept are the ones the receiver computed at its construction.
\* So after a change of the source between construction and narrowing, kept keys
\* show the new source and back-filled keys the old one.
C28_SourceAtCall ==
    (last.op \in NarrowOps /\ last.steps # {}) =>
        LET recv == instances[last.recv]
            kept == PickedBy(last, recv)
            f == NarrowedInput(recv, kept, srcHeap)
        IN  /\ last.ok =>
                \A k \in kept :
                    /\ Get(instances[last.inst].meta, k).raw = Get(srcHeap[recv.source], k)
                    /\ Get(instances[last.inst].meta, k).val = Get(f.value, k)
                    /\ DataGet(instances[last.inst], k) = Get(f.value, k)
            /\ \A i \in 1..Len(last.log) :
                  /\ \A k \in kept : Get(last.log[i][2], k) = Get(f.value, k)
                  /\ \A k \in SeqSet(DeclaredKeys(recv)) \ kept :
                        Get(last.log[i][2], k) = Get(recv.meta, k).val

\* after a change of the source, a narrowing succeeds whose check saw the
\* receiver's old value of a dropped key beside the source's value of a kept key
C28_Witness ==
    /\ last.op \in NarrowOps /\ last.ok /\ mutations = 1 /\ Len(last.log) = 1
    /\ \E k \in SeqSet(DeclaredKeys(instances[last.recv])) \ PickedBy(last, instances[last.recv]) :
          /\ Get(last.log[1][2], k) = Get(instances[last.recv].meta, k).val
          /\ Get(instances[last.recv].meta, k).raw # Get(srcHeap[instances[last.recv].source], k)
    /\ \E k \in PickedBy(last, instances[last.recv]) :
          /\ Get(instances[last.inst].meta, k).raw = Get(srcHeap[instances[last.recv].source], k)
          /\ Get(instances[last.inst].meta, k).raw # Undef

\* C29: the camel accessor is built only from keys present in the Validated
\* Record. Its names are the camel names of those keys, each defined once, and
\* each is bound to the first key with that camel name among the declared keys
\* that are in the record, in declaration order, followed by the keys the
\* transform introduced, in record order. A declared key the transform removed
\* has no camel property and does not reserve its name; a declared key in the
\* record takes precedence over a transform-introduced key with the same name.
C29_CamelBinding ==
    \A n \in DOMAIN instances :
        LET inst == instances[n]
            order == CamelOrder(inst)
            declared == SeqSet(DeclaredKeys(inst))
            bound == {inst.camel[j][2] : j \in 1..Len(inst.camel)}
        IN  /\ {inst.camel[j][1] : j \in 1..Len(inst.camel)}
                   = {snakeToCamelKey(order[i]) : i \in 1..Len(order)}
            /\ \A j \in 1..Len(inst.camel) :
                  /\ \A h \in 1..Len(inst.camel) : inst.camel[h][1] = inst.camel[j][1] => h = j
                  /\ \E i \in 1..Len(order) :
                        /\ order[i] = inst.camel[j][2]
                        /\ snakeToCamelKey(order[i]) = inst.camel[j][1]
                        /\ \A h \in 1..(i - 1) : snakeToCamelKey(order[h]) # inst.camel[j][1]
            /\ \A k \in declared :
                  IF Has(inst.parsedRecord, k)
                  THEN Get(inst.camel, snakeToCamelKey(k)) \in declared
                  ELSE /\ k \notin bound
                       /\ (\E i \in 1..Len(order) : snakeToCamelKey(order[i]) = snakeToCamelKey(k))
                              => Has(inst.camel, snakeToCamelKey(k))

\* the transform removed the declared A_B and introduced a_b: camel.aB is the
\* declared aB's, which neither of the two took
C29_Witness ==
    \E n \in DOMAIN instances :
        /\ DeclaredKeys(instances[n]) = <<K_AB, K_aB, K_P>>
        /\ ~Has(instances[n].parsedRecord, K_AB)
        /\ Has(instances[n].parsedRecord, K_ab)
        /\ Has(instances[n].parsedRecord, K_aB)
        /\ Get(instances[n].camel, snakeToCamelKey(K_AB)) = K_aB
        /\ Get(instances[n].camel, snakeToCamelKey(K_ab)) = K_aB

\* C30: a pick or omit that drops the field with the counting default never
\* invokes that default: the count of invocations after the call is the count
\* before it, and the value the re-attached whole-object check sees for the field
\* is the one the receiver already holds.
C30_NoInvocation ==
    [][(/\ last'.op \in NarrowOps
        /\ last'.steps # {}
        /\ K_P \in SeqSet(DeclaredKeys(instances[last'.recv]))
        /\ K_P \notin PickedBy(last', instances[last'.recv])) =>
            /\ calls' = calls
            /\ last'.log # <<>>
            /\ \A i \in 1..Len(last'.log) :
                  Get(last'.log[i][2], K_P) = DataGet(instances[last'.recv], K_P)
      ]_vars

\* the receiver got the first generated value; a narrowing that drops the field,
\* with the source still holding no raw value for it, showed the check that
\* value and left the count at one
C30_Witness ==
    /\ last.op \in NarrowOps /\ last.ok /\ calls = 1
    /\ K_P \in SeqSet(DeclaredKeys(instances[last.recv]))
    /\ K_P \notin PickedBy(last, instances[last.recv])
    /\ Get(srcHeap[instances[last.recv].source], K_P) = Undef
    /\ Get(instances[last.recv].meta, K_P).raw = Undef
    /\ Len(last.log) = 1
    /\ Get(last.log[1][2], K_P) = Str(<<"1">>)

====
